---- MODULE Spec2Model ----
(***************************************************************************)
(* Tool invocation pipeline of agentrpc: LocalToolRegistry,                *)
(* AccessControlService, ToolCache, PerformanceMonitor, LocalToolExecutor  *)
(* and the LocalAgentRPC facade.                                           *)
(*                                                                         *)
(* JavaScript runs one callback at a time, so every action below is one    *)
(* run-to-completion segment of the source: the code from a call (or from  *)
(* the settlement of an awaited promise) up to the next await.             *)
(***************************************************************************)
EXTENDS Integers, Sequences, FiniteSets, TLC

VARIABLES
    tools,                  \* LocalToolRegistry.tools (Map, insertion order)
    peerTools,              \* the registry of a second LocalAgentRPC of the same process
    policies,               \* AccessControlService.policies (Map name -> allowedRoles)
    defaultPolicy,          \* AccessControlService.defaultPolicy.allowedRoles
    cache,                  \* ToolCache.cache (Map, insertion order)
    maxEntries,             \* ToolCache.maxEntries
    toolMetrics,            \* PerformanceMonitor.toolMetrics
    metricsLimit,           \* PerformanceMonitor.metricsLimit
    defaultTimeoutSeconds,  \* LocalAgentRPC.options.defaultTimeoutSeconds (0 = not set)
    emitted,                \* every LocalAgentRPC.emitEvent call, in order
    eventListeners,         \* LocalAgentRPC.eventListeners (array)
    delivered,              \* the listener calls made by the last emitEvent, in order
    calls,                  \* the executeTool invocations, by call id
    lastOp,                 \* the last registry, listener or policy operation and what it returned
    composition,            \* what was constructed: a LocalAgentRPC, or a bare registry + executor
    mcp,                    \* the LocalMcpServer over the LocalAgentRPC, and its transports
    now                     \* Date.now()

vars == <<tools, peerTools, policies, defaultPolicy, cache, maxEntries, toolMetrics,
          metricsLimit, defaultTimeoutSeconds, emitted, eventListeners, delivered,
          calls, lastOp, composition, mcp, now>>

(***************************************************************************)
(* Bounds of the model.                                                    *)
(***************************************************************************)
MaxCalls == 2
MaxTime == 1001
MaxRegistryOps == 3
MaxListeners == 2

(***************************************************************************)
(* JavaScript values.  A value is a number or a string; an object is the   *)
(* sequence of its own properties in insertion order.                      *)
(***************************************************************************)
Num(n) == [k |-> "number", n |-> n, s |-> ""]
Str(s) == [k |-> "string", n |-> 0, s |-> s]
\* a BigInt, which JSON.stringify refuses to serialize
BigInt(n) == [k |-> "bigint", n |-> n, s |-> ""]
Prop(key, val) == [key |-> key, val |-> val]

HasKey(obj, key) == \E i \in 1..Len(obj) : obj[i].key = key
GetKey(obj, key) == obj[CHOOSE i \in 1..Len(obj) : obj[i].key = key].val

\* JSON.stringify of a value
StringifyValue(v) ==
    IF v.k = "number" THEN ToString(v.n) ELSE "\"" \o v.s \o "\""

RECURSIVE StringifyProps(_)
StringifyProps(obj) ==
    IF Len(obj) = 0 THEN ""
    ELSE "\"" \o Head(obj).key \o "\":" \o StringifyValue(Head(obj).val)
         \o (IF Len(obj) > 1 THEN "," ELSE "")
         \o StringifyProps(Tail(obj))

\* JSON.stringify of an object: properties in insertion order
JSONstringify(obj) == "{" \o StringifyProps(obj) \o "}"

\* JSON.stringify(obj) throws a TypeError
StringifyThrows(obj) == \E i \in 1..Len(obj) : obj[i].val.k = "bigint"

(***************************************************************************)
(* Schemas (zod object schemas used by the tests) and handlers.            *)
(***************************************************************************)
\* z.object({ a: z.number(), b: z.number() })
SchemaShape(schema) ==
    IF schema = "ab"
    THEN << [key |-> "a", type |-> "number"], [key |-> "b", type |-> "number"] >>
    ELSE << [key |-> "a", type |-> "number"] >>

\* tool.schema.parse(input) does not throw a ZodError
SchemaAccepts(schema, input) ==
    \A i \in 1..Len(SchemaShape(schema)) :
        /\ HasKey(input, SchemaShape(schema)[i].key)
        /\ GetKey(input, SchemaShape(schema)[i].key).k = SchemaShape(schema)[i].type

\* the value tool.schema.parse(input) returns: the declared keys in the
\* order of the schema's shape, unknown keys stripped
SchemaParse(schema, input) ==
    [i \in 1..Len(SchemaShape(schema)) |->
        Prop(SchemaShape(schema)[i].key, GetKey(input, SchemaShape(schema)[i].key))]

\* tool.handler(validatedInput) when it completes normally
HandlerOutput(handler, v) ==
    IF handler = "sum"
    THEN << Prop("sum", Num(GetKey(v, "a").n + (IF HasKey(v, "b") THEN GetKey(v, "b").n ELSE 0))) >>
    ELSE IF handler = "big"
    THEN << Prop("big", BigInt(GetKey(v, "a").n)) >>
    ELSE << Prop("processed", GetKey(v, "a")) >>

(***************************************************************************)
(* Tool definitions.  config.present = FALSE is a tool registered without  *)
(* a config object; a field of 0 inside config is a field that is not set. *)
(***************************************************************************)
NoConfig == [present |-> FALSE, timeoutSeconds |-> 0, enableCache |-> "unset",
             cacheTimeSeconds |-> 0]

\* 'add' of the integration tests: no config
ToolAdd   == [id |-> 1, name |-> "add", schema |-> "ab", handler |-> "sum",
              config |-> NoConfig]
\* 'slowOperation' of the integration tests: config.timeoutSeconds = 1
ToolSlow  == [id |-> 2, name |-> "slow", schema |-> "ab", handler |-> "processed",
              config |-> [present |-> TRUE, timeoutSeconds |-> 1,
                          enableCache |-> "unset", cacheTimeSeconds |-> 0]]
\* a second definition under the name 'add', in the shape of 'cachedOperation'
ToolAdd2  == [id |-> 3, name |-> "add", schema |-> "a", handler |-> "processed",
              config |-> [present |-> TRUE, timeoutSeconds |-> 0,
                          enableCache |-> "true", cacheTimeSeconds |-> 1]]

\* the integration test's secureOperation: a config without timeoutSeconds
ToolSecure == [id |-> 4, name |-> "secure", schema |-> "a", handler |-> "processed",
               config |-> [NoConfig EXCEPT !.present = TRUE]]

\* a tool registered with config.enableCache = false
ToolNoCache == [id |-> 5, name |-> "nocache", schema |-> "a", handler |-> "processed",
                config |-> [NoConfig EXCEPT !.present = TRUE, !.enableCache = "false"]]

\* a tool whose handler returns an object holding a BigInt
ToolBig == [id |-> 6, name |-> "big", schema |-> "a", handler |-> "big",
            config |-> NoConfig]

NoTool == [id |-> 0, name |-> "", schema |-> "", handler |-> "", config |-> NoConfig]

(***************************************************************************)
(* LocalToolRegistry                                                       *)
(***************************************************************************)
\* this.tools.has(name)
hasTool(name) == \E i \in 1..Len(tools) : tools[i].name = name

\* this.tools.get(name); NoTool is undefined
getTool(name) ==
    IF hasTool(name)
    THEN tools[CHOOSE i \in 1..Len(tools) : tools[i].name = name]
    ELSE NoTool

\* Map.get(name) on a registry map
ToolsGet(ts, name) ==
    IF \E i \in 1..Len(ts) : ts[i].name = name
    THEN ts[CHOOSE i \in 1..Len(ts) : ts[i].name = name]
    ELSE NoTool

\* Map.delete(name) on the registry map
ToolsDelete(ts, name) == SelectSeq(ts, LAMBDA t : t.name # name)

\* register without the has() check: Map.set replaces the definition in place
registerOverwrites(ts, tool) ==
    [threw |-> FALSE,
     tools |-> IF \E i \in 1..Len(ts) : ts[i].name = tool.name
               THEN [i \in 1..Len(ts) |-> IF ts[i].name = tool.name THEN tool ELSE ts[i]]
               ELSE Append(ts, tool)]

\* LocalToolRegistry.register: throws when the name is present, else Map.set
register(ts, tool) ==
    IF \E i \in 1..Len(ts) : ts[i].name = tool.name
    THEN [threw |-> TRUE, tools |-> ts]
    ELSE [threw |-> FALSE, tools |-> Append(ts, tool)]

\* removeTool that reports success whether or not the name was there
removeToolAlwaysTrue(ts, name) ==
    [returned |-> TRUE, tools |-> ToolsDelete(ts, name)]

\* LocalToolRegistry.removeTool: Map.delete returns whether the key was there
removeTool(ts, name) ==
    [returned |-> \E i \in 1..Len(ts) : ts[i].name = name,
     tools |-> ToolsDelete(ts, name)]

(***************************************************************************)
(* AccessControlService                                                    *)
(***************************************************************************)
\* UserRole
ADMIN == "admin"
USER == "user"
GUEST == "guest"

\* this.policies.get(toolName) || this.defaultPolicy
getPolicy(toolName) ==
    IF toolName \in DOMAIN policies THEN policies[toolName] ELSE defaultPolicy

\* a check without the administrator bypass
isAllowedNoBypass(toolName, role) == role \in getPolicy(toolName)

isAllowed(toolName, role) ==
    IF role = ADMIN THEN TRUE ELSE role \in getPolicy(toolName)

(***************************************************************************)
(* ToolCache.  An entry is [key, value, timestamp, ttlMs]; the sequence is *)
(* the Map's insertion order.                                              *)
(***************************************************************************)
\* ToolExecutionResult (no result)
NoResult == [toolName |-> "", result |-> << >>, executionTimeMs |-> 0]

CacheHasKey(c, key) == \E i \in 1..Len(c) : c[i].key = key
CacheEntryOf(c, key) == c[CHOOSE i \in 1..Len(c) : c[i].key = key]
CacheDelete(c, key) == SelectSeq(c, LAMBDA e : e.key # key)

\* an expiry test that treats a ttl of 0 like any other
ExpiredWithoutTtlTest(entry, t) == t - entry.timestamp > entry.ttlMs

\* entry.ttlMs > 0 && Date.now() - entry.timestamp > entry.ttlMs
Expired(entry, t) == entry.ttlMs > 0 /\ t - entry.timestamp > entry.ttlMs

\* a get that refreshes the timestamp of the entry it returns
CacheGetRefreshes(c, key, t) ==
    IF ~CacheHasKey(c, key)
    THEN [found |-> FALSE, value |-> NoResult, cache |-> c]
    ELSE IF Expired(CacheEntryOf(c, key), t)
         THEN [found |-> FALSE, value |-> NoResult, cache |-> CacheDelete(c, key)]
         ELSE [found |-> TRUE, value |-> CacheEntryOf(c, key).value,
               cache |-> [i \in 1..Len(c) |->
                            IF c[i].key = key THEN [c[i] EXCEPT !.timestamp = t]
                            ELSE c[i]]]

\* ToolCache.get: found = FALSE is undefined (value then unused); an expired
\* entry is deleted
CacheGet(c, key, t) ==
    IF ~CacheHasKey(c, key)
    THEN [found |-> FALSE, value |-> NoResult, cache |-> c]
    ELSE IF Expired(CacheEntryOf(c, key), t)
         THEN [found |-> FALSE, value |-> NoResult, cache |-> CacheDelete(c, key)]
         ELSE [found |-> TRUE, value |-> CacheEntryOf(c, key).value, cache |-> c]

\* ToolCache.has: the same test as get; an expired entry is deleted
CacheHas(c, key, t) ==
    IF ~CacheHasKey(c, key)
    THEN [found |-> FALSE, cache |-> c]
    ELSE IF Expired(CacheEntryOf(c, key), t)
         THEN [found |-> FALSE, cache |-> CacheDelete(c, key)]
         ELSE [found |-> TRUE, cache |-> c]

\* a sweep that stops at the first expired entry it deletes
CacheCleanupFirstOnly(c, t) ==
    IF \E i \in 1..Len(c) : Expired(c[i], t)
    THEN LET first == CHOOSE i \in 1..Len(c) :
                        Expired(c[i], t) /\ \A j \in 1..(i-1) : ~Expired(c[j], t)
         IN SubSeq(c, 1, first - 1) \o SubSeq(c, first + 1, Len(c))
    ELSE c

\* ToolCache.cleanup: delete every expired entry
CacheCleanup(c, t) == SelectSeq(c, LAMBDA e : ~Expired(e, t))

\* ToolCache.findOldestEntry: the first entry with the smallest timestamp
findOldestEntry(c) ==
    c[CHOOSE i \in 1..Len(c) :
        /\ \A j \in 1..Len(c) : c[i].timestamp <= c[j].timestamp
        /\ \A j \in 1..(i-1) : c[j].timestamp > c[i].timestamp].key

\* a set that keeps the entry already stored under the key
MapSetKeepsFirst(c, entry) ==
    IF CacheHasKey(c, entry.key) THEN c ELSE Append(c, entry)

\* Map.set: an existing key keeps its position
MapSet(c, entry) ==
    IF CacheHasKey(c, entry.key)
    THEN [i \in 1..Len(c) |-> IF c[i].key = entry.key THEN entry ELSE c[i]]
    ELSE Append(c, entry)

\* ToolCache.set: at capacity, `if (oldestKey)` deletes the oldest entry
\* unless its key is the empty string (falsy)
CacheSet(c, key, value, ttlMs, t, max) ==
    LET evicted == IF Len(c) >= max /\ Len(c) > 0 /\ findOldestEntry(c) # ""
                   THEN CacheDelete(c, findOldestEntry(c))
                   ELSE c
    IN MapSet(evicted, [key |-> key, value |-> value, timestamp |-> t, ttlMs |-> ttlMs])

(***************************************************************************)
(* PerformanceMonitor                                                      *)
(***************************************************************************)
\* a recorder whose limit counts the samples of the recorded tool only
recordToolMetricsPerTool(ms, sample, limit) ==
    LET pushed == Append(ms, sample)
        same == SelectSeq(pushed, LAMBDA m : m.toolName = sample.toolName)
        first == CHOOSE i \in 1..Len(pushed) :
                    /\ pushed[i].toolName = sample.toolName
                    /\ \A j \in 1..(i - 1) : pushed[j].toolName # sample.toolName
    IN IF Len(same) > limit
       THEN [i \in 1..(Len(pushed) - 1) |-> IF i < first THEN pushed[i] ELSE pushed[i + 1]]
       ELSE pushed

\* recordToolMetrics: push, then shift when over the limit
recordToolMetrics(ms, sample, limit) ==
    LET pushed == Append(ms, sample)
    IN IF Len(pushed) > limit THEN Tail(pushed) ELSE pushed

(***************************************************************************)
(* LocalToolExecutor                                                       *)
(***************************************************************************)
\* ExecuteToolOptions; userRole "none", useCache/collectMetrics "unset",
\* timeoutMs 0 and cacheTtlMs -1 are fields that are not supplied
NoOptions == [userRole |-> "none", useCache |-> "unset", timeoutMs |-> 0,
              cacheTtlMs |-> -1, collectMetrics |-> "unset"]

\* ToolExecutionError: the message kind, the tool name and the cause
NoError == [name |-> "none", kind |-> "none", toolName |-> "", cause |-> "none"]
ToolExecutionError(kind, toolName, cause) ==
    [name |-> "ToolExecutionError", kind |-> kind, toolName |-> toolName,
     cause |-> cause]

\* a TypeError as the runtime throws it: no toolName, no cause
TypeError == [name |-> "TypeError", kind |-> "none", toolName |-> "", cause |-> "none"]

\* a cache key that leaves the input out
generateCacheKeyNameOnly(toolName, input) == toolName \o ":"

\* `${toolName}:${JSON.stringify(input)}`
generateCacheKey(toolName, input) == toolName \o ":" \o JSONstringify(input)

\* options?.useCache ?? true
UseCache(options) == options.useCache # "false"

\* options?.collectMetrics ?? true
CollectMetrics(options) == options.collectMetrics # "false"

\* the timeout taken in seconds where milliseconds are meant
ResolveTimeoutMsNoScale(tool, options) ==
    IF options.timeoutMs # 0 \/ (tool.config.present /\ tool.config.timeoutSeconds # 0)
    THEN IF tool.config.present
         THEN [throws |-> FALSE, ms |-> tool.config.timeoutSeconds]
         ELSE [throws |-> TRUE, ms |-> 0]
    ELSE [throws |-> FALSE, ms |-> 0]

\* options?.timeoutMs || tool.config?.timeoutSeconds ? tool.config.timeoutSeconds * 1000 : undefined
\* parses as (a || b) ? c : d.  throws: tool.config is undefined where c reads
\* it (TypeError); ms = 0: undefined, NaN or 0, all of which skip the timeout
ResolveTimeoutMs(tool, options) ==
    IF options.timeoutMs # 0 \/ (tool.config.present /\ tool.config.timeoutSeconds # 0)
    THEN IF tool.config.present
         THEN [throws |-> FALSE, ms |-> tool.config.timeoutSeconds * 1000]
         ELSE [throws |-> TRUE, ms |-> 0]
    ELSE [throws |-> FALSE, ms |-> 0]

\* the tool's configured duration taken before the per-call TTL
ResolveCacheTtlMsConfigFirst(tool, options) ==
    IF tool.config.present /\ tool.config.cacheTimeSeconds # 0
    THEN tool.config.cacheTimeSeconds * 1000
    ELSE IF options.cacheTtlMs # -1 THEN options.cacheTtlMs ELSE 300000

\* options?.cacheTtlMs ?? (tool.config?.cacheTimeSeconds ? tool.config.cacheTimeSeconds * 1000 : 300000)
ResolveCacheTtlMs(tool, options) ==
    IF options.cacheTtlMs # -1 THEN options.cacheTtlMs
    ELSE IF tool.config.present /\ tool.config.cacheTimeSeconds # 0
         THEN tool.config.cacheTimeSeconds * 1000
         ELSE 300000

(***************************************************************************)
(* One executeTool invocation.                                             *)
(*   pc: "idle" not called yet; "running" awaiting the handler (and the    *)
(*   timer); "settled" the executor's promise has settled and the facade's *)
(*   continuation has not run yet; "done" the caller has the outcome.      *)
(*   probeDeleted: the call's cache probe deleted an expired entry.        *)
(***************************************************************************)
IdleCall == [pc |-> "idle", via |-> "", toolName |-> "", input |-> << >>,
             passed |-> NoOptions, options |-> NoOptions, tool |-> NoTool,
             validated |-> << >>, invoked |-> 0, handler |-> "none",
             execStart |-> 0, timeoutMs |-> 0, timer |-> "none",
             outcome |-> "none", error |-> NoError, result |-> NoResult,
             settledAt |-> 0, probeDeleted |-> FALSE]

\* the pc of a call whose executor promise has just settled
AfterSettle(call) == IF call.via = "facade" THEN "settled" ELSE "done"

Fail(call, err, t) ==
    [call EXCEPT !.pc = AfterSettle(call), !.outcome = "failure", !.error = err,
                 !.settledAt = t]

\* an authorize stage that runs whether or not a role was supplied
RoleSuppliedAlways(options) == TRUE

\* if (options?.userRole)
RoleSupplied(options) == options.userRole # "none"

\* an executeTool that probes the cache before it resolves the tool
ExecutorStartProbesFirst(call, t) ==
    LET name  == call.toolName
        opts  == call.options
        tool  == getTool(name)
        key   == generateCacheKey(name, call.input)
        probe == CacheGet(cache, key, t)
        tmo   == ResolveTimeoutMs(tool, opts)
    IN  IF UseCache(opts) /\ ~StringifyThrows(call.input) /\ probe.found
        THEN [call |-> [call EXCEPT !.tool = tool, !.pc = AfterSettle(call),
                                    !.outcome = "success",
                                    !.result = probe.value,
                                    !.settledAt = t],
              cache |-> probe.cache]
        ELSE IF tool = NoTool
        THEN [call |-> Fail(call, ToolExecutionError("NotFound", name, "none"), t),
              cache |-> IF UseCache(opts) /\ ~StringifyThrows(call.input)
                        THEN probe.cache ELSE cache]
        ELSE IF RoleSupplied(opts) /\ ~isAllowed(name, opts.userRole)
        THEN [call |-> Fail([call EXCEPT !.tool = tool],
                            ToolExecutionError("AccessDenied", name, "none"), t),
              cache |-> cache]
        ELSE IF UseCache(opts) /\ StringifyThrows(call.input)
        THEN [call |-> Fail([call EXCEPT !.tool = tool], TypeError, t),
              cache |-> cache]
        ELSE LET c1 == IF UseCache(opts) THEN probe.cache ELSE cache
             IN IF ~SchemaAccepts(tool.schema, call.input)
                THEN [call |-> Fail([call EXCEPT !.tool = tool, !.probeDeleted = c1 # cache],
                                    ToolExecutionError("ValidationError", name, "ZodError"), t),
                      cache |-> c1]
                ELSE IF tmo.throws
                THEN [call |-> Fail([call EXCEPT !.tool = tool, !.probeDeleted = c1 # cache,
                                         !.validated = SchemaParse(tool.schema, call.input)],
                                    ToolExecutionError("ExecutionError", name, "TypeError"), t),
                      cache |-> c1]
                ELSE [call |-> [call EXCEPT !.tool = tool, !.pc = "running",
                                    !.probeDeleted = c1 # cache,
                                    !.validated = SchemaParse(tool.schema, call.input),
                                    !.invoked = 1, !.handler = "pending",
                                    !.execStart = t, !.timeoutMs = tmo.ms,
                                    !.timer = IF tmo.ms # 0 THEN "armed" ELSE "none"],
                      cache |-> c1]

\* LocalToolExecutor.executeTool from its first line to its first await:
\* resolve, authorize, cache key (outside the try block, so what
\* JSON.stringify throws escapes as it is), cache probe, validate, timeout
\* resolution, handler call.
\* Gives the call's next record and the cache (get deletes an expired entry).
ExecutorStartOn(ts, call, t) ==
    LET name  == call.toolName
        opts  == call.options
        tool  == ToolsGet(ts, name)
        key   == generateCacheKey(name, call.input)
        probe == CacheGet(cache, key, t)
        tmo   == ResolveTimeoutMs(tool, opts)
    IN  IF tool = NoTool
        THEN [call |-> Fail(call, ToolExecutionError("NotFound", name, "none"), t),
              cache |-> cache]
        ELSE IF RoleSupplied(opts) /\ ~isAllowed(name, opts.userRole)
        THEN [call |-> Fail([call EXCEPT !.tool = tool],
                            ToolExecutionError("AccessDenied", name, "none"), t),
              cache |-> cache]
        ELSE IF UseCache(opts) /\ StringifyThrows(call.input)
        THEN [call |-> Fail([call EXCEPT !.tool = tool], TypeError, t),
              cache |-> cache]
        ELSE IF UseCache(opts) /\ probe.found
        THEN [call |-> [call EXCEPT !.tool = tool, !.pc = AfterSettle(call),
                                    !.outcome = "success",
                                    !.result = probe.value,
                                    !.settledAt = t],
              cache |-> probe.cache]
        ELSE LET c1 == IF UseCache(opts) THEN probe.cache ELSE cache
             IN IF ~SchemaAccepts(tool.schema, call.input)
                THEN [call |-> Fail([call EXCEPT !.tool = tool, !.probeDeleted = c1 # cache],
                                    ToolExecutionError("ValidationError", name, "ZodError"), t),
                      cache |-> c1]
                ELSE IF tmo.throws
                THEN [call |-> Fail([call EXCEPT !.tool = tool, !.probeDeleted = c1 # cache,
                                         !.validated = SchemaParse(tool.schema, call.input)],
                                    ToolExecutionError("ExecutionError", name, "TypeError"), t),
                      cache |-> c1]
                ELSE [call |-> [call EXCEPT !.tool = tool, !.pc = "running",
                                    !.probeDeleted = c1 # cache,
                                    !.validated = SchemaParse(tool.schema, call.input),
                                    !.invoked = 1, !.handler = "pending",
                                    !.execStart = t, !.timeoutMs = tmo.ms,
                                    !.timer = IF tmo.ms # 0 THEN "armed" ELSE "none"],
                      cache |-> c1]

\* executeTool of the executor whose registry is this.registry
ExecutorStart(call, t) == ExecutorStartOn(tools, call, t)

(***************************************************************************)
(* LocalAgentRPC events                                                    *)
(***************************************************************************)
\* EventType
TOOL_REGISTERED == "tool_registered"
TOOL_EXECUTION_STARTED == "tool_execution_started"
TOOL_EXECUTION_COMPLETED == "tool_execution_completed"
TOOL_EXECUTION_FAILED == "tool_execution_failed"

\* one emitEvent(eventType, data); call is the invocation that emitted it
Event(type, toolName, c, input, result, error) ==
    [type |-> type, toolName |-> toolName, call |-> c, input |-> input,
     result |-> result, error |-> error]

\* the listener functions that are registered: one throws when called
Listeners == {"raising", "plain"}
Raises(listener) == listener = "raising"

\* one call of a listener with an event
Delivery(listener, event) ==
    [listener |-> listener, event |-> event, threw |-> Raises(listener)]

\* a dispatch without the try/catch: the first listener that throws ends it
emitEventUnguarded(event) ==
    LET n == Len(eventListeners)
        stop == IF \E i \in 1..n : Raises(eventListeners[i])
                THEN CHOOSE i \in 1..n :
                        /\ Raises(eventListeners[i])
                        /\ \A j \in 1..(i - 1) : ~Raises(eventListeners[j])
                ELSE n
    IN [i \in 1..stop |-> Delivery(eventListeners[i], event)]

\* indexOf(listener), 0 when absent
IndexOf(listeners, listener) ==
    IF \E i \in 1..Len(listeners) : listeners[i] = listener
    THEN CHOOSE i \in 1..Len(listeners) :
            /\ listeners[i] = listener
            /\ \A j \in 1..(i - 1) : listeners[j] # listener
    ELSE 0

\* splice(index, 1)
Splice(listeners, index) ==
    [i \in 1..(Len(listeners) - 1) |->
        IF i < index THEN listeners[i] ELSE listeners[i + 1]]

\* what a listener does to the listener array when it is called:
\* "removesSelf" calls removeEventListener on itself, "removesPlain" calls
\* it on the listener "plain", "addsLate" calls addEventListener("late")
\* unless it has done so; the others leave the array alone
ListenerEffect(listeners, listener) ==
    IF listener = "removesSelf" /\ IndexOf(listeners, "removesSelf") # 0
    THEN Splice(listeners, IndexOf(listeners, "removesSelf"))
    ELSE IF listener = "removesPlain" /\ IndexOf(listeners, "plain") # 0
    THEN Splice(listeners, IndexOf(listeners, "plain"))
    ELSE IF listener = "addsLate" /\ IndexOf(listeners, "late") = 0
    THEN Append(listeners, "late")
    ELSE listeners

\* for (const listener of this.eventListeners): the array iterator reads
\* this.eventListeners[index] while index < length, on the array as the
\* listeners called so far have left it
RECURSIVE DispatchFrom(_, _, _, _)
DispatchFrom(listeners, index, event, called) ==
    IF index > Len(listeners)
    THEN [listeners |-> listeners, delivered |-> called]
    ELSE DispatchFrom(ListenerEffect(listeners, listeners[index]), index + 1, event,
                      Append(called, Delivery(listeners[index], event)))

\* LocalAgentRPC.emitEvent: the listeners are called in array order, and
\* what a listener throws is caught and logged; gives the listener calls made
emitEvent(event) == DispatchFrom(eventListeners, 1, event, << >>).delivered

\* this.eventListeners once emitEvent has returned
ListenersAfterEmit(event) == DispatchFrom(eventListeners, 1, event, << >>).listeners

NoOp == [op |-> "none", name |-> "", id |-> 0, roles |-> {}, returned |-> FALSE,
         threw |-> FALSE, stored |-> FALSE, value |-> NoResult, seen |-> 0, n |-> 0]

(***************************************************************************)
(* Initial state: the module singletons as constructed (toolCache,         *)
(* performanceMonitor, accessControlService) and either a LocalAgentRPC    *)
(* (with or without defaultTimeoutSeconds) or a bare LocalToolRegistry     *)
(* with a LocalToolExecutor on it.                                         *)
(***************************************************************************)
DefaultTimeouts == {0, 5}

\* the state after construction, with new ToolCache({ maxEntries }) and
\* new PerformanceMonitor({ metricsLimit })
\* before new LocalMcpServer(agentRPC, options): no server.  The fields of a
\* constructed one are options.useWebSocket, options.useStdio, options.port,
\* isRunning, and webSocketTransport and stdioTransport as an index into
\* transports, the transport objects created so far (0 is undefined); pc is
\* the await that a start() or stop() in progress is suspended at, and
\* lastCall, returned and n tell which call was made last and how its promise
\* settled
NoServer ==
    [constructed |-> FALSE, useWebSocket |-> FALSE, useStdio |-> FALSE, port |-> 0,
     isRunning |-> FALSE, webSocketTransport |-> 0, stdioTransport |-> 0,
     transports |-> << >>, pc |-> "idle", lastCall |-> "none", returned |-> "none",
     n |-> 0]

Constructed(cacheMaxEntries, monitorMetricsLimit) ==
    /\ tools = << >>
    /\ peerTools = << >>
    /\ policies = << >>
    /\ defaultPolicy = {ADMIN, USER}
    /\ cache = << >>
    /\ maxEntries = cacheMaxEntries
    /\ toolMetrics = << >>
    /\ metricsLimit = monitorMetricsLimit
    /\ composition \in {"LocalAgentRPC", "LocalToolExecutor"}
    /\ defaultTimeoutSeconds \in
          IF composition = "LocalAgentRPC" THEN DefaultTimeouts ELSE {0}
    /\ emitted = << >>
    /\ eventListeners = << >>
    /\ delivered = << >>
    /\ calls = [c \in 1..MaxCalls |-> IdleCall]
    /\ lastOp = NoOp
    /\ mcp = NoServer
    /\ now = 0

\* the module singletons: options.maxEntries ?? 1000, options.metricsLimit ?? 1000
Init == Constructed(1000, 1000)

(***************************************************************************)
(* Registry operations                                                     *)
(***************************************************************************)
RegisterOp(tool, r) ==
    [op |-> "register", name |-> tool.name, id |-> tool.id, roles |-> {},
     returned |-> FALSE,
     threw |-> r.threw, stored |-> FALSE, value |-> NoResult, seen |-> 0,
     n |-> lastOp.n + 1]

\* LocalToolRegistry.register on a bare registry
RegistryRegister(tool) ==
    /\ composition = "LocalToolExecutor"
    /\ lastOp.n < MaxRegistryOps
    /\ tools' = register(tools, tool).tools
    /\ lastOp' = RegisterOp(tool, register(tools, tool))
    /\ UNCHANGED <<mcp, peerTools, policies, defaultPolicy, cache, maxEntries, toolMetrics,
                   metricsLimit, defaultTimeoutSeconds, emitted, eventListeners,
                   delivered, calls, composition, now>>

\* the id of the tool that getTool(toolName), called by a listener of the
\* tool_registered event, returns while the registry is ts; 0 when no
\* listener is called or getTool returns undefined
SeenByListeners(ts, toolName, emits) ==
    IF emits /\ eventListeners # << >> THEN ToolsGet(ts, toolName).id ELSE 0

\* a register that emits tool_registered before it calls registry.register
RegisterEmitsFirst(tool) ==
    /\ composition = "LocalAgentRPC"
    /\ lastOp.n < MaxRegistryOps
    /\ tools' = register(tools, tool).tools
    /\ lastOp' = [RegisterOp(tool, register(tools, tool))
                    EXCEPT !.seen = SeenByListeners(tools, tool.name, TRUE)]
    /\ emitted' = Append(emitted,
                         Event(TOOL_REGISTERED, tool.name, 0, << >>, NoResult, NoError))
    /\ delivered' = emitEvent(
                         Event(TOOL_REGISTERED, tool.name, 0, << >>, NoResult, NoError))
    /\ UNCHANGED <<mcp, peerTools, policies, defaultPolicy, cache, maxEntries, toolMetrics,
                   metricsLimit, defaultTimeoutSeconds, calls, composition, now,
                   eventListeners>>

\* LocalAgentRPC.register: registry.register, then emit tool_registered
Register(tool) ==
    /\ composition = "LocalAgentRPC"
    /\ lastOp.n < MaxRegistryOps
    /\ tools' = register(tools, tool).tools
    /\ lastOp' = [RegisterOp(tool, register(tools, tool))
                    EXCEPT !.seen = SeenByListeners(register(tools, tool).tools, tool.name,
                                                    ~register(tools, tool).threw)]
    /\ emitted' = IF register(tools, tool).threw
                  THEN emitted
                  ELSE Append(emitted,
                        Event(TOOL_REGISTERED, tool.name, 0, << >>, NoResult, NoError))
    /\ delivered' = IF register(tools, tool).threw
                    THEN delivered
                    ELSE emitEvent(
                          Event(TOOL_REGISTERED, tool.name, 0, << >>, NoResult, NoError))
    /\ eventListeners' = IF register(tools, tool).threw
                         THEN eventListeners
                         ELSE ListenersAfterEmit(
                               Event(TOOL_REGISTERED, tool.name, 0, << >>, NoResult, NoError))
    /\ UNCHANGED <<mcp, peerTools, policies, defaultPolicy, cache, maxEntries, toolMetrics,
                   metricsLimit, defaultTimeoutSeconds, calls, composition, now>>

\* LocalToolRegistry.removeTool on a bare registry
RemoveTool(name) ==
    /\ composition = "LocalToolExecutor"
    /\ lastOp.n < MaxRegistryOps
    /\ tools' = removeTool(tools, name).tools
    /\ lastOp' = [op |-> "removeTool", name |-> name, id |-> 0, roles |-> {},
                  returned |-> removeTool(tools, name).returned, threw |-> FALSE, stored |-> FALSE,
                  value |-> NoResult, seen |-> 0,
                  n |-> lastOp.n + 1]
    /\ UNCHANGED <<mcp, peerTools, policies, defaultPolicy, cache, maxEntries, toolMetrics,
                   metricsLimit, defaultTimeoutSeconds, emitted, eventListeners,
                   delivered, calls, composition, now>>

(***************************************************************************)
(* Access policy and cache administration                                  *)
(***************************************************************************)
\* Map.set(toolName, allowedRoles) on the policy map
PoliciesSet(ps, toolName, allowedRoles) ==
    [n \in DOMAIN ps \cup {toolName} |-> IF n = toolName THEN allowedRoles ELSE ps[n]]

\* Map.delete(toolName) on the policy map
PoliciesDelete(ps, toolName) == [n \in DOMAIN ps \ {toolName} |-> ps[n]]

\* an addPolicy that keeps the policy a tool already has
AddPolicyKeepsFirst(toolName, allowedRoles) ==
    /\ policies' = IF toolName \in DOMAIN policies THEN policies
                   ELSE PoliciesSet(policies, toolName, allowedRoles)
    /\ lastOp' = [NoOp EXCEPT !.op = "addPolicy", !.name = toolName,
                              !.roles = allowedRoles, !.n = lastOp.n]
    /\ UNCHANGED <<mcp, peerTools, tools, defaultPolicy, cache, maxEntries, toolMetrics, metricsLimit,
                   defaultTimeoutSeconds, emitted, eventListeners, delivered, calls,
                   composition, now>>

\* AccessControlService.addPolicy: this.policies.set(policy.toolName, policy)
AddPolicy(toolName, allowedRoles) ==
    /\ policies' = PoliciesSet(policies, toolName, allowedRoles)
    /\ lastOp' = [NoOp EXCEPT !.op = "addPolicy", !.name = toolName,
                              !.roles = allowedRoles, !.n = lastOp.n]
    /\ UNCHANGED <<mcp, peerTools, tools, defaultPolicy, cache, maxEntries, toolMetrics, metricsLimit,
                   defaultTimeoutSeconds, emitted, eventListeners, delivered, calls,
                   composition, now>>

\* AccessControlService.removePolicy: returns this.policies.delete(toolName)
RemovePolicy(toolName) ==
    /\ policies' = PoliciesDelete(policies, toolName)
    /\ lastOp' = [NoOp EXCEPT !.op = "removePolicy", !.name = toolName,
                              !.returned = toolName \in DOMAIN policies,
                              !.n = lastOp.n]
    /\ UNCHANGED <<mcp, peerTools, tools, defaultPolicy, cache, maxEntries, toolMetrics, metricsLimit,
                   defaultTimeoutSeconds, emitted, eventListeners, delivered, calls,
                   composition, now>>

\* AccessControlService.clearPolicies
ClearPolicies ==
    /\ policies' = << >>
    /\ lastOp' = [NoOp EXCEPT !.op = "clearPolicies", !.n = lastOp.n]
    /\ UNCHANGED <<mcp, peerTools, tools, defaultPolicy, cache, maxEntries, toolMetrics, metricsLimit,
                   defaultTimeoutSeconds, emitted, eventListeners, delivered, calls,
                   composition, now>>

\* AccessControlService.setDefaultPolicy
SetDefaultPolicy(allowedRoles) ==
    /\ defaultPolicy' = allowedRoles
    /\ lastOp' = [NoOp EXCEPT !.op = "setDefaultPolicy", !.roles = allowedRoles,
                              !.n = lastOp.n]
    /\ UNCHANGED <<mcp, peerTools, tools, policies, cache, maxEntries, toolMetrics, metricsLimit,
                   defaultTimeoutSeconds, emitted, eventListeners, delivered, calls,
                   composition, now>>

\* ToolCache.clear
CacheClear ==
    /\ cache # << >>
    /\ cache' = << >>
    /\ UNCHANGED <<mcp, peerTools, tools, policies, defaultPolicy, maxEntries, toolMetrics,
                   metricsLimit, defaultTimeoutSeconds, emitted, eventListeners,
                   delivered, calls, lastOp, composition, now>>

\* toolCache.set(key, value, ttlMs) called directly
ToolCacheSet(key, value, ttlMs) ==
    /\ cache' = CacheSet(cache, key, value, ttlMs, now, maxEntries)
    /\ lastOp' = [NoOp EXCEPT !.op = "set", !.name = key, !.n = lastOp.n]
    /\ UNCHANGED <<mcp, peerTools, tools, policies, defaultPolicy, maxEntries, toolMetrics,
                   metricsLimit, defaultTimeoutSeconds, emitted, eventListeners,
                   delivered, calls, composition, now>>

\* toolCache.get(key) called directly; stored records whether the Map held
\* an entry for the key when get was called
ToolCacheGet(key) ==
    /\ LET r == CacheGet(cache, key, now)
       IN /\ cache' = r.cache
          /\ lastOp' = [NoOp EXCEPT !.op = "get", !.name = key,
                                    !.returned = r.found, !.value = r.value,
                                    !.stored = CacheHasKey(cache, key),
                                    !.n = lastOp.n]
    /\ UNCHANGED <<mcp, peerTools, tools, policies, defaultPolicy, maxEntries, toolMetrics,
                   metricsLimit, defaultTimeoutSeconds, emitted, eventListeners,
                   delivered, calls, composition, now>>

\* toolCache.has(key) called directly
ToolCacheHas(key) ==
    /\ LET r == CacheHas(cache, key, now)
       IN /\ cache' = r.cache
          /\ lastOp' = [NoOp EXCEPT !.op = "has", !.name = key,
                                    !.returned = r.found,
                                    !.stored = CacheHasKey(cache, key),
                                    !.n = lastOp.n]
    /\ UNCHANGED <<mcp, peerTools, tools, policies, defaultPolicy, maxEntries, toolMetrics,
                   metricsLimit, defaultTimeoutSeconds, emitted, eventListeners,
                   delivered, calls, composition, now>>

\* toolCache.delete(key) called directly
ToolCacheDelete(key) ==
    /\ cache' = CacheDelete(cache, key)
    /\ lastOp' = [NoOp EXCEPT !.op = "delete", !.name = key,
                              !.returned = CacheHasKey(cache, key), !.n = lastOp.n]
    /\ UNCHANGED <<mcp, tools, peerTools, policies, defaultPolicy, maxEntries, toolMetrics,
                   metricsLimit, defaultTimeoutSeconds, emitted, eventListeners,
                   delivered, calls, composition, now>>

\* the cleanup interval fires: toolCache.cleanup()
ToolCacheCleanup ==
    /\ cache' = CacheCleanup(cache, now)
    /\ lastOp' = [NoOp EXCEPT !.op = "cleanup", !.n = lastOp.n]
    /\ UNCHANGED <<mcp, peerTools, tools, policies, defaultPolicy, maxEntries, toolMetrics,
                   metricsLimit, defaultTimeoutSeconds, emitted, eventListeners,
                   delivered, calls, composition, now>>

\* the clock advances
Tick(d) ==
    /\ now + d <= MaxTime
    /\ now' = now + d
    /\ UNCHANGED <<mcp, peerTools, tools, policies, defaultPolicy, cache, maxEntries, toolMetrics,
                   metricsLimit, defaultTimeoutSeconds, emitted, eventListeners,
                   delivered, calls, lastOp, composition>>

(***************************************************************************)
(* Invocations                                                             *)
(***************************************************************************)
\* calls are numbered in the order they are made
NextCall(c) == c = 1 + Cardinality({d \in 1..MaxCalls : calls[d].pc # "idle"})

\* LocalToolExecutor.executeTool(toolName, input, options), called directly,
\* up to its first await
ExecuteTool(c, toolName, input, options) ==
    /\ composition = "LocalToolExecutor"
    /\ NextCall(c)
    /\ LET call == [IdleCall EXCEPT !.via = "executor", !.toolName = toolName,
                                    !.input = input, !.passed = options,
                                    !.options = options]
           r == ExecutorStart(call, now)
       IN /\ calls' = [calls EXCEPT ![c] = r.call]
          /\ cache' = r.cache
    /\ UNCHANGED <<mcp, peerTools, tools, policies, defaultPolicy, maxEntries, toolMetrics,
                   metricsLimit, defaultTimeoutSeconds, emitted, eventListeners,
                   delivered, lastOp, composition, now>>

\* register on the second LocalAgentRPC: its own registry; its events go to
\* its own listeners
PeerRegister(tool) ==
    /\ composition = "LocalAgentRPC"
    /\ peerTools' = register(peerTools, tool).tools
    /\ UNCHANGED <<mcp, tools, policies, defaultPolicy, cache, maxEntries, toolMetrics,
                   metricsLimit, defaultTimeoutSeconds, emitted, eventListeners,
                   delivered, calls, lastOp, composition, now>>

\* executeTool on the second LocalAgentRPC (constructed without options), up
\* to its await: its executor resolves the tool in its own registry and uses
\* the imported toolCache, performanceMonitor and accessControlService
PeerExecuteTool(c, toolName, input) ==
    /\ composition = "LocalAgentRPC"
    /\ NextCall(c)
    /\ LET call == [IdleCall EXCEPT !.via = "peer", !.toolName = toolName,
                                    !.input = input]
           r == ExecutorStartOn(peerTools, call, now)
       IN /\ calls' = [calls EXCEPT ![c] = r.call]
          /\ cache' = r.cache
    /\ UNCHANGED <<mcp, tools, peerTools, policies, defaultPolicy, maxEntries, toolMetrics,
                   metricsLimit, defaultTimeoutSeconds, emitted, eventListeners,
                   delivered, lastOp, composition, now>>

\* LocalAgentRPC.executeTool(toolName, input) up to its await: emit
\* tool_execution_started, then the executor with { timeoutMs: default }.
\* passed is the third argument of the caller, which the method does not declare.
FacadeExecuteTool(c, toolName, input, passed) ==
    /\ composition = "LocalAgentRPC"
    /\ NextCall(c)
    /\ LET call == [IdleCall EXCEPT !.via = "facade", !.toolName = toolName,
                                    !.input = input, !.passed = passed,
                                    !.options = [NoOptions EXCEPT
                                        !.timeoutMs = defaultTimeoutSeconds * 1000]]
           r == ExecutorStart(call, now)
       IN /\ calls' = [calls EXCEPT ![c] = r.call]
          /\ cache' = r.cache
    /\ emitted' = Append(emitted,
            Event(TOOL_EXECUTION_STARTED, toolName, c, input, NoResult, NoError))
    /\ delivered' = emitEvent(
            Event(TOOL_EXECUTION_STARTED, toolName, c, input, NoResult, NoError))
    /\ eventListeners' = ListenersAfterEmit(
            Event(TOOL_EXECUTION_STARTED, toolName, c, input, NoResult, NoError))
    /\ UNCHANGED <<mcp, peerTools, tools, policies, defaultPolicy, maxEntries, toolMetrics,
                   metricsLimit, defaultTimeoutSeconds, lastOp, composition, now>>

\* the ToolPerformanceMetrics the executor records
MetricsSample(call, toolResult, t) ==
    [toolName |-> call.toolName, executionTimeMs |-> toolResult.executionTimeMs,
     validationTimeMs |-> 0,
     inputSizeBytes |-> Len(JSONstringify(call.input)),
     outputSizeBytes |-> Len(JSONstringify(toolResult.result)),
     timestamp |-> t]

\* building the sample throws: JSON.stringify(input) or JSON.stringify(result)
MetricsThrows(call, toolResult) ==
    StringifyThrows(call.input) \/ StringifyThrows(toolResult.result)

\* a continuation without the inner try/catch: an error thrown while the
\* sample is built reaches the outer catch
HandlerResolvesMetricsPropagate(c) ==
    /\ calls[c].pc = "running"
    /\ LET call == calls[c]
           toolResult == [toolName |-> call.toolName,
                          result |-> HandlerOutput(call.tool.handler, call.validated),
                          executionTimeMs |-> now - call.execStart]
           thrown == CollectMetrics(call.options) /\ MetricsThrows(call, toolResult)
       IN /\ calls' = [calls EXCEPT ![c] =
                IF thrown
                THEN [Fail(call, ToolExecutionError("ExecutionError", call.toolName,
                                                    "TypeError"), now)
                        EXCEPT !.handler = "resolved",
                               !.timer = IF call.timer = "armed" THEN "cleared"
                                         ELSE call.timer]
                ELSE [call EXCEPT !.pc = AfterSettle(call), !.handler = "resolved",
                             !.timer = IF call.timer = "armed" THEN "cleared" ELSE call.timer,
                             !.outcome = "success", !.result = toolResult,
                             !.settledAt = now]]
          /\ toolMetrics' = IF CollectMetrics(call.options) /\ ~thrown
                            THEN recordToolMetrics(toolMetrics,
                                    MetricsSample(call, toolResult, now), metricsLimit)
                            ELSE toolMetrics
          /\ cache' = IF UseCache(call.options) /\ ~thrown
                      THEN CacheSet(cache, generateCacheKey(call.toolName, call.input),
                                    toolResult, ResolveCacheTtlMs(call.tool, call.options),
                                    now, maxEntries)
                      ELSE cache
    /\ UNCHANGED <<mcp, peerTools, tools, policies, defaultPolicy, maxEntries, metricsLimit,
                   defaultTimeoutSeconds, emitted, eventListeners, delivered, lastOp,
                   composition, now>>

\* performanceMonitor.recordToolMetrics(sample) called directly
RecordToolMetrics(toolName, executionTimeMs) ==
    /\ lastOp.n < MaxRegistryOps
    /\ toolMetrics' = recordToolMetrics(toolMetrics,
                         [toolName |-> toolName, executionTimeMs |-> executionTimeMs,
                          validationTimeMs |-> 0, inputSizeBytes |-> 0,
                          outputSizeBytes |-> 0, timestamp |-> now],
                         metricsLimit)
    /\ lastOp' = [NoOp EXCEPT !.op = "recordToolMetrics", !.name = toolName,
                              !.n = lastOp.n + 1]
    /\ UNCHANGED <<mcp, tools, peerTools, policies, defaultPolicy, cache, maxEntries,
                   metricsLimit, defaultTimeoutSeconds, emitted, eventListeners,
                   delivered, calls, composition, now>>

\* the handler's promise fulfils while executeTool awaits it: the timer is
\* cleared, metrics are recorded, the cache is populated, the result returned
HandlerResolves(c) ==
    /\ calls[c].pc = "running"
    /\ LET call == calls[c]
           toolResult == [toolName |-> call.toolName,
                          result |-> HandlerOutput(call.tool.handler, call.validated),
                          executionTimeMs |-> now - call.execStart]
       IN /\ calls' = [calls EXCEPT ![c] =
                [call EXCEPT !.pc = AfterSettle(call), !.handler = "resolved",
                             !.timer = IF call.timer = "armed" THEN "cleared" ELSE call.timer,
                             !.outcome = "success", !.result = toolResult,
                             !.settledAt = now]]
          /\ toolMetrics' = IF /\ CollectMetrics(call.options)
                               /\ ~MetricsThrows(call, toolResult)
                            THEN recordToolMetrics(toolMetrics,
                                    MetricsSample(call, toolResult, now), metricsLimit)
                            ELSE toolMetrics
          /\ cache' = IF UseCache(call.options)
                      THEN CacheSet(cache, generateCacheKey(call.toolName, call.input),
                                    toolResult, ResolveCacheTtlMs(call.tool, call.options),
                                    now, maxEntries)
                      ELSE cache
    /\ UNCHANGED <<mcp, peerTools, tools, policies, defaultPolicy, maxEntries, metricsLimit,
                   defaultTimeoutSeconds, emitted, eventListeners, delivered, lastOp,
                   composition, now>>

\* a catch block that stores the failed invocation's empty result
HandlerRejectsCaches(c) ==
    /\ calls[c].pc = "running"
    /\ calls' = [calls EXCEPT ![c] =
            [Fail(calls[c], ToolExecutionError("ExecutionError", calls[c].toolName,
                                               "HandlerError"), now)
                EXCEPT !.handler = "rejected",
                       !.timer = IF calls[c].timer = "armed" THEN "cleared"
                                 ELSE calls[c].timer]]
    /\ cache' = IF UseCache(calls[c].options)
                THEN CacheSet(cache, generateCacheKey(calls[c].toolName, calls[c].input),
                              NoResult, ResolveCacheTtlMs(calls[c].tool, calls[c].options),
                              now, maxEntries)
                ELSE cache
    /\ UNCHANGED <<mcp, peerTools, tools, policies, defaultPolicy, maxEntries, toolMetrics,
                   metricsLimit, defaultTimeoutSeconds, emitted, eventListeners,
                   delivered, lastOp, composition, now>>

\* the handler throws or its promise rejects while executeTool awaits it
HandlerRejects(c) ==
    /\ calls[c].pc = "running"
    /\ calls' = [calls EXCEPT ![c] =
            [Fail(calls[c], ToolExecutionError("ExecutionError", calls[c].toolName,
                                               "HandlerError"), now)
                EXCEPT !.handler = "rejected",
                       !.timer = IF calls[c].timer = "armed" THEN "cleared"
                                 ELSE calls[c].timer]]
    /\ UNCHANGED <<mcp, peerTools, tools, policies, defaultPolicy, cache, maxEntries, toolMetrics,
                   metricsLimit, defaultTimeoutSeconds, emitted, eventListeners,
                   delivered, lastOp, composition, now>>

\* the setTimeout callback of executeWithTimeout runs: the race is lost to
\* the timer, executeTool's catch wraps the rejection
TimeoutFires(c) ==
    /\ calls[c].pc = "running"
    /\ calls[c].timer = "armed"
    /\ now >= calls[c].execStart + calls[c].timeoutMs
    /\ calls' = [calls EXCEPT ![c] =
            [Fail(calls[c], ToolExecutionError("ExecutionError", calls[c].toolName,
                                               "Timeout"), now)
                EXCEPT !.timer = "fired"]]
    /\ UNCHANGED <<mcp, peerTools, tools, policies, defaultPolicy, cache, maxEntries, toolMetrics,
                   metricsLimit, defaultTimeoutSeconds, emitted, eventListeners,
                   delivered, lastOp, composition, now>>

\* a late settlement that is not gated on the race: a late success still
\* records metrics and populates the cache
LateHandlerSettlesUngated(c, how) ==
    /\ calls[c].pc \in {"settled", "done"}
    /\ calls[c].handler = "pending"
    /\ calls' = [calls EXCEPT ![c].handler = how]
    /\ LET call == calls[c]
           toolResult == [toolName |-> call.toolName,
                          result |-> HandlerOutput(call.tool.handler, call.validated),
                          executionTimeMs |-> now - call.execStart]
       IN IF how = "resolved"
          THEN /\ toolMetrics' = recordToolMetrics(toolMetrics,
                                    MetricsSample(call, toolResult, now), metricsLimit)
               /\ cache' = CacheSet(cache, generateCacheKey(call.toolName, call.input),
                                    toolResult, ResolveCacheTtlMs(call.tool, call.options),
                                    now, maxEntries)
          ELSE UNCHANGED <<mcp, peerTools, toolMetrics, cache>>
    /\ UNCHANGED <<mcp, peerTools, tools, policies, defaultPolicy, maxEntries, metricsLimit,
                   defaultTimeoutSeconds, emitted, eventListeners, delivered, lastOp,
                   composition, now>>

\* the handler settles after the timer has fired: clearTimeout and
\* resolve/reject of the already rejected promise change nothing
LateHandlerSettles(c, how) ==
    /\ calls[c].pc \in {"settled", "done"}
    /\ calls[c].handler = "pending"
    /\ calls' = [calls EXCEPT ![c].handler = how]
    /\ UNCHANGED <<mcp, peerTools, tools, policies, defaultPolicy, cache, maxEntries, toolMetrics,
                   metricsLimit, defaultTimeoutSeconds, emitted, eventListeners,
                   delivered, lastOp, composition, now>>

\* a completed event that reports no execution time for a call whose
\* handler did not run
CompletedEventRetimed(c) ==
    Event(TOOL_EXECUTION_COMPLETED, calls[c].toolName, c, << >>,
          [calls[c].result EXCEPT
              !.executionTimeMs = IF calls[c].invoked = 0 THEN 0 ELSE @],
          NoError)

\* the event LocalAgentRPC.executeTool emits once the executor has settled
CompletedEvent(c) ==
    Event(TOOL_EXECUTION_COMPLETED, calls[c].toolName, c, << >>, calls[c].result, NoError)
FailedEvent(c) ==
    Event(TOOL_EXECUTION_FAILED, calls[c].toolName, c, << >>, NoResult, calls[c].error)

\* a continuation that emits tool_execution_completed whatever the outcome
\* and tool_execution_failed after it on failure
FacadeContinuesCompletedFirst(c) ==
    /\ calls[c].pc = "settled"
    /\ calls' = [calls EXCEPT ![c].pc = "done"]
    /\ emitted' = IF calls[c].outcome = "success"
                  THEN Append(emitted, CompletedEvent(c))
                  ELSE Append(Append(emitted, CompletedEvent(c)), FailedEvent(c))
    /\ delivered' = IF calls[c].outcome = "success"
                    THEN emitEvent(CompletedEvent(c))
                    ELSE emitEvent(CompletedEvent(c)) \o emitEvent(FailedEvent(c))
    /\ UNCHANGED <<mcp, peerTools, tools, policies, defaultPolicy, cache, maxEntries, toolMetrics,
                   metricsLimit, defaultTimeoutSeconds, lastOp, composition, now,
                   eventListeners>>

\* a catch block that emits tool_execution_failed and does not rethrow: the
\* caller's promise resolves with undefined
FacadeContinuesSwallows(c) ==
    /\ calls[c].pc = "settled"
    /\ calls' = IF calls[c].outcome = "success"
                THEN [calls EXCEPT ![c].pc = "done"]
                ELSE [calls EXCEPT ![c].pc = "done", ![c].outcome = "success",
                                   ![c].error = NoError]
    /\ emitted' = Append(emitted, IF calls[c].outcome = "success"
                                  THEN CompletedEvent(c) ELSE FailedEvent(c))
    /\ delivered' = emitEvent(IF calls[c].outcome = "success"
                               THEN CompletedEvent(c) ELSE FailedEvent(c))
    /\ UNCHANGED <<mcp, peerTools, tools, policies, defaultPolicy, cache, maxEntries, toolMetrics,
                   metricsLimit, defaultTimeoutSeconds, lastOp, composition, now,
                   eventListeners>>

\* LocalAgentRPC.executeTool after its await: emit tool_execution_completed
\* and return, or emit tool_execution_failed and rethrow
FacadeContinues(c) ==
    /\ calls[c].pc = "settled"
    /\ calls' = [calls EXCEPT ![c].pc = "done"]
    /\ emitted' = Append(emitted, IF calls[c].outcome = "success"
                                  THEN CompletedEvent(c) ELSE FailedEvent(c))
    /\ delivered' = emitEvent(IF calls[c].outcome = "success"
                               THEN CompletedEvent(c) ELSE FailedEvent(c))
    /\ eventListeners' = ListenersAfterEmit(IF calls[c].outcome = "success"
                                            THEN CompletedEvent(c) ELSE FailedEvent(c))
    /\ UNCHANGED <<mcp, peerTools, tools, policies, defaultPolicy, cache, maxEntries, toolMetrics,
                   metricsLimit, defaultTimeoutSeconds, lastOp, composition, now>>

\* LocalAgentRPC.addEventListener: push, whether or not it is there already
AddEventListener(listener) ==
    /\ composition = "LocalAgentRPC"
    /\ Len(eventListeners) < MaxListeners
    /\ eventListeners' = Append(eventListeners, listener)
    /\ lastOp' = [NoOp EXCEPT !.op = "addEventListener", !.name = listener,
                              !.n = lastOp.n]
    /\ UNCHANGED <<mcp, peerTools, tools, policies, defaultPolicy, cache, maxEntries, toolMetrics,
                   metricsLimit, defaultTimeoutSeconds, emitted, delivered, calls,
                   composition, now>>

\* LocalAgentRPC.removeEventListener: removes the first occurrence and
\* returns true, or returns false
RemoveEventListener(listener) ==
    /\ composition = "LocalAgentRPC"
    /\ LET index == IndexOf(eventListeners, listener)
       IN /\ eventListeners' = IF index # 0 THEN Splice(eventListeners, index)
                               ELSE eventListeners
          /\ lastOp' = [NoOp EXCEPT !.op = "removeEventListener", !.name = listener,
                                    !.returned = index # 0, !.n = lastOp.n]
    /\ UNCHANGED <<mcp, peerTools, tools, policies, defaultPolicy, cache, maxEntries, toolMetrics,
                   metricsLimit, defaultTimeoutSeconds, emitted, delivered, calls,
                   composition, now>>

(***************************************************************************)
(* Parameters the specifications draw from                                 *)
(***************************************************************************)
ToolDefs == {ToolAdd, ToolSlow, ToolAdd2}
ToolNames == {"add", "slow"}

InputSum   == << Prop("a", Num(2)), Prop("b", Num(3)) >>
InputOther == << Prop("a", Num(3)), Prop("b", Num(3)) >>
InputBad   == << Prop("a", Str("x")), Prop("b", Num(3)) >>
InputBig   == << Prop("a", BigInt(2)), Prop("b", Num(3)) >>

\* InputSum written with its keys in the other order
InputSumReordered == << Prop("b", Num(3)), Prop("a", Num(2)) >>

\* an input with a BigInt under a key the schemas do not declare
InputBigExtra == << Prop("a", Num(2)), Prop("b", BigInt(3)) >>

CallIds == 1..MaxCalls

(***************************************************************************)
(* SpecRegistry: the registry under register / removeTool, with            *)
(* invocations resolving tools from it.                                    *)
(***************************************************************************)
NextRegistry ==
    \/ \E t \in ToolDefs : RegistryRegister(t)
    \/ \E t \in ToolDefs : Register(t)
    \/ \E n \in ToolNames : RemoveTool(n)
    \/ \E c \in CallIds, n \in ToolNames : ExecuteTool(c, n, InputSum, NoOptions)
    \/ \E c \in CallIds, n \in ToolNames : FacadeExecuteTool(c, n, InputSum, NoOptions)
    \/ \E c \in CallIds : HandlerResolves(c)
    \/ \E c \in CallIds : FacadeContinues(c)

SpecRegistry == Init /\ [][NextRegistry]_vars

(***************************************************************************)
(* Registry claims                                                         *)
(***************************************************************************)
\* the step is a register(tool) call
IsRegisterStep(tool) ==
    lastOp'.n = lastOp.n + 1 /\ lastOp'.op = "register" /\ lastOp'.id = tool.id

\* the step is a removeTool(name) call
IsRemoveStep(name) ==
    lastOp'.n = lastOp.n + 1 /\ lastOp'.op = "removeTool" /\ lastOp'.name = name

\* C8: registering a tool whose name is already present raises an error and
\* does not overwrite: afterwards getTool(name) still returns the definition
\* registered first and the registered tools are unchanged.
C8_DuplicateRegisterKeepsOriginal ==
    [][\A t \in ToolDefs :
          (IsRegisterStep(t) /\ hasTool(t.name))
              => /\ lastOp'.threw
                 /\ tools' = tools
                 /\ getTool(t.name)' = getTool(t.name)]_vars

\* a register of a different definition under a taken name has been refused
C8_Witness ==
    /\ lastOp.op = "register"
    /\ lastOp.threw
    /\ getTool(lastOp.name).id # 0
    /\ getTool(lastOp.name).id # lastOp.id

\* C9: a registered name stays registered, with the same definition, until
\* removeTool(name) returns true; from then on hasTool(name) is false and
\* getTool(name) is absent until a new register of the name; removeTool of a
\* name that is not registered returns false and changes nothing.
C9_RegisteredUntilRemoved ==
    [][\A n \in ToolNames :
          /\ (hasTool(n) /\ ~IsRemoveStep(n))
                => (hasTool(n)' /\ getTool(n)' = getTool(n))
          /\ (hasTool(n) /\ IsRemoveStep(n))
                => (lastOp'.returned /\ ~hasTool(n)' /\ getTool(n)' = NoTool)
          /\ (~hasTool(n) /\ ~(\E t \in ToolDefs : t.name = n /\ IsRegisterStep(t)))
                => (~hasTool(n)' /\ getTool(n)' = NoTool)
          /\ (~hasTool(n) /\ IsRemoveStep(n))
                => (~lastOp'.returned /\ tools' = tools)]_vars

\* removeTool has returned true for a name while another tool stays registered
C9_Witness ==
    /\ lastOp.op = "removeTool"
    /\ lastOp.returned
    /\ ~hasTool(lastOp.name)
    /\ getTool(lastOp.name) = NoTool
    /\ Len(tools) > 0

(***************************************************************************)
(* SpecCache: one definition of 'add' is registered (the setup phase),     *)
(* then sequential and overlapping invocations of it run against the       *)
(* result cache, its TTL and clear().                                      *)
(***************************************************************************)
CacheToolDefs == {ToolAdd, ToolAdd2}
CacheInputs == {InputSum, InputOther}
CacheOptions ==
    { NoOptions,
      [NoOptions EXCEPT !.useCache = "false"] }
CacheTickSteps == {1000, 1001}

NextCache ==
    \/ \E t \in CacheToolDefs : tools = << >> /\ RegistryRegister(t)
    \/ \E t \in CacheToolDefs : tools = << >> /\ Register(t)
    \/ \E c \in CallIds, i \in CacheInputs, o \in CacheOptions : ExecuteTool(c, "add", i, o)
    \/ \E c \in CallIds, i \in CacheInputs : FacadeExecuteTool(c, "add", i, NoOptions)
    \/ \E c \in CallIds : HandlerResolves(c)
    \/ \E c \in CallIds : HandlerRejects(c)
    \/ \E c \in CallIds : FacadeContinues(c)
    \/ CacheClear
    \/ \E d \in CacheTickSteps : Tick(d)

SpecCache == Init /\ [][NextCache]_vars

(***************************************************************************)
(* Cache claims                                                            *)
(***************************************************************************)
\* the step is the start of invocation c
IsStartStep(c) == calls[c].pc = "idle" /\ calls'[c].pc # "idle"

\* invocation c computed a result, returned it and populated the cache
ComputedAndCached(c) ==
    /\ calls[c].pc \in {"settled", "done"}
    /\ calls[c].outcome = "success"
    /\ calls[c].invoked = 1
    /\ UseCache(calls[c].options)

\* the entry invocation c wrote is still stored and its TTL has not elapsed
EntryOfCallLive(c) ==
    \E i \in 1..Len(cache) :
        /\ cache[i].key = generateCacheKey(calls[c].toolName, calls[c].input)
        /\ cache[i].value = calls[c].result
        /\ cache[i].timestamp = calls[c].settledAt
        /\ (cache[i].ttlMs = 0 \/ now - cache[i].timestamp <= cache[i].ttlMs)

\* the role of a call's options passes the Authorize stage
Authorized(toolName, options) ==
    options.userRole = "none" \/ isAllowed(toolName, options.userRole)

\* C1: when executeTool is called twice in sequence with identical
\* (name, input), caching enabled, no intervening clear/eviction and the TTL
\* not elapsed, the handler is invoked exactly once in total and the second
\* call returns an output equal to the first's; a later call with a
\* different input invokes the handler again.
C1_SecondCallServedFromCache ==
    [][\A c1, c2 \in CallIds :
          (c1 # c2 /\ IsStartStep(c2) /\ ComputedAndCached(c1)
             /\ calls'[c2].toolName = calls[c1].toolName
             /\ UseCache(calls'[c2].options)
             /\ hasTool(calls[c1].toolName)
             /\ Authorized(calls'[c2].toolName, calls'[c2].options))
          => /\ (calls'[c2].input = calls[c1].input /\ EntryOfCallLive(c1))
                  => /\ calls'[c2].invoked = 0
                     /\ calls[c1].invoked + calls'[c2].invoked = 1
                     /\ calls'[c2].outcome = "success"
                     /\ calls'[c2].result.result = calls[c1].result.result
             /\ (/\ calls'[c2].input # calls[c1].input
                 /\ calls'[c2].options = calls[c1].options
                 /\ getTool(calls[c1].toolName) = calls[c1].tool
                 /\ SchemaAccepts(calls[c1].tool.schema, calls'[c2].input)
                 /\ \A d \in CallIds \ {c2} :
                        calls[d].pc # "idle" => calls[d].input # calls'[c2].input)
                  => calls'[c2].invoked = 1]_vars

\* a second call with the same (name, input) has been served from the entry
\* the first one computed, some time after it
C1_Witness ==
    \E c1, c2 \in CallIds :
        /\ c1 < c2
        /\ calls[c1].pc = "done" /\ calls[c2].pc = "done"
        /\ calls[c1].invoked = 1 /\ calls[c2].invoked = 0
        /\ calls[c1].outcome = "success" /\ calls[c2].outcome = "success"
        /\ calls[c1].toolName = calls[c2].toolName
        /\ calls[c1].input = calls[c2].input
        /\ calls[c2].result = calls[c1].result
        /\ calls[c2].settledAt > calls[c1].settledAt

(***************************************************************************)
(* SpecTimeout: 'slow' (config.timeoutSeconds = 1) is registered, then     *)
(* invocations of it race their handlers against the timer while the       *)
(* clock advances.                                                         *)
(***************************************************************************)
TimeoutInputs == {InputSum}
TimeoutOptions ==
    { NoOptions,
      [NoOptions EXCEPT !.useCache = "false"] }
TimeoutTickSteps == {500, 501}

NextTimeout ==
    \/ tools = << >> /\ RegistryRegister(ToolSlow)
    \/ tools = << >> /\ Register(ToolSlow)
    \/ \E c \in CallIds, i \in TimeoutInputs, o \in TimeoutOptions :
            ExecuteTool(c, "slow", i, o)
    \/ \E c \in CallIds, i \in TimeoutInputs : FacadeExecuteTool(c, "slow", i, NoOptions)
    \/ \E c \in CallIds : HandlerResolves(c)
    \/ \E c \in CallIds : HandlerRejects(c)
    \/ \E c \in CallIds : TimeoutFires(c)
    \/ \E c \in CallIds, how \in {"resolved", "rejected"} : LateHandlerSettles(c, how)
    \/ \E c \in CallIds : FacadeContinues(c)
    \/ \E d \in TimeoutTickSteps : Tick(d)

SpecTimeout == Init /\ [][NextTimeout]_vars

(***************************************************************************)
(* Timeout claims                                                          *)
(***************************************************************************)
\* the tool of the invocation has a configured timeout and its handler ran
UnderConfiguredTimeout(call) ==
    call.invoked = 1 /\ call.tool.config.present /\ call.tool.config.timeoutSeconds # 0

\* when the configured deadline of the invocation is due
ConfiguredDeadline(call) == call.execStart + call.tool.config.timeoutSeconds * 1000

\* what the tool's handler computes from the schema-normalised raw input
TrueOutput(call) ==
    HandlerOutput(call.tool.handler, SchemaParse(call.tool.schema, call.input))

TimeoutError(toolName) == ToolExecutionError("ExecutionError", toolName, "Timeout")

\* C2: for a tool executed with a configured timeout, if the handler has
\* not settled when the deadline fires executeTool fails with a timeout
\* error (and the timer never fires before the deadline); if the handler
\* settles successfully before it, executeTool succeeds and returns the
\* handler's true output.
C2_TimeoutOrTrueOutput ==
    \A c \in CallIds :
        UnderConfiguredTimeout(calls[c]) =>
            /\ calls[c].timer = "fired" =>
                  /\ calls[c].outcome = "failure"
                  /\ calls[c].error = TimeoutError(calls[c].toolName)
                  /\ calls[c].settledAt >= ConfiguredDeadline(calls[c])
            /\ (calls[c].handler = "resolved" /\ calls[c].timer # "fired") =>
                  /\ calls[c].outcome = "success"
                  /\ calls[c].result.toolName = calls[c].toolName
                  /\ calls[c].result.result = TrueOutput(calls[c])

\* one invocation has timed out at its deadline and another has succeeded
\* with time on the clock but before its deadline
C2_Witness ==
    \E c1, c2 \in CallIds :
        /\ UnderConfiguredTimeout(calls[c1]) /\ UnderConfiguredTimeout(calls[c2])
        /\ calls[c1].pc = "done" /\ calls[c1].timer = "fired"
        /\ calls[c1].error = TimeoutError("slow")
        /\ calls[c2].pc = "done" /\ calls[c2].outcome = "success"
        /\ calls[c2].settledAt > calls[c2].execStart
        /\ calls[c2].settledAt < ConfiguredDeadline(calls[c2])

\* the terminal events the facade has emitted for invocation c
TerminalEvents(log, c) ==
    SelectSeq(log, LAMBDA e : e.call = c /\ e.type \in {TOOL_EXECUTION_COMPLETED,
                                                         TOOL_EXECUTION_FAILED})

\* C3: per invocation run under a timeout exactly one outcome is surfaced
\* and it is never replaced; when the deadline fires first, the handler's
\* later settlement changes nothing observable: no cache entry is written,
\* no metrics sample is recorded and no tool_execution_completed is emitted.
C3_LateSettlementChangesNothing ==
    [][\A c \in CallIds :
          /\ calls[c].outcome # "none"
                => /\ calls'[c].outcome = calls[c].outcome
                   /\ calls'[c].error = calls[c].error
                   /\ calls'[c].result = calls[c].result
          /\ (calls[c].timer = "fired" /\ calls'[c].handler # calls[c].handler)
                => /\ cache' = cache
                   /\ toolMetrics' = toolMetrics
                   /\ emitted' = emitted
          /\ calls'[c].timer = "fired"
                => /\ calls'[c].outcome = "failure"
                   /\ calls'[c].result = NoResult
                   /\ \A i \in 1..Len(emitted') :
                         emitted'[i].call = c => emitted'[i].type # TOOL_EXECUTION_COMPLETED
          /\ (calls'[c].pc = "done" /\ calls'[c].via = "facade")
                => Len(TerminalEvents(emitted', c)) = 1]_vars

\* a facade invocation timed out, its failure was delivered, and then its
\* handler completed successfully: nothing was cached or measured
C3_Witness ==
    \E c \in CallIds :
        /\ calls[c].via = "facade"
        /\ calls[c].pc = "done"
        /\ calls[c].timer = "fired"
        /\ calls[c].handler = "resolved"
        /\ cache = << >>
        /\ toolMetrics = << >>
        /\ Len(TerminalEvents(emitted, c)) = 1

(***************************************************************************)
(* SpecAccess: invocations tagged with a role while the access control     *)
(* policies change.                                                        *)
(***************************************************************************)
Roles == {ADMIN, USER, GUEST}
AccessPolicies == { {USER}, {GUEST} }
AccessDefaultPolicies == { {ADMIN, USER}, {GUEST} }
AccessInputs == {InputSum}
AccessOptions == { [NoOptions EXCEPT !.userRole = r] : r \in Roles }

NextAccess ==
    \/ tools = << >> /\ RegistryRegister(ToolSecure)
    \/ tools = << >> /\ Register(ToolSecure)
    \/ \E rs \in AccessPolicies : AddPolicy("secure", rs)
    \/ ClearPolicies
    \/ \E rs \in AccessDefaultPolicies : SetDefaultPolicy(rs)
    \/ \E c \in CallIds, i \in AccessInputs, o \in AccessOptions :
            ExecuteTool(c, "secure", i, o)
    \/ \E c \in CallIds, o \in AccessOptions :
            FacadeExecuteTool(c, "secure", InputSum, o)
    \/ \E c \in CallIds : HandlerResolves(c)
    \/ \E c \in CallIds : FacadeContinues(c)

SpecAccess == Init /\ [][NextAccess]_vars

(***************************************************************************)
(* Access control claims                                                   *)
(***************************************************************************)
\* the allow-list in force for a tool: its policy, else the default policy
ResolvedAllowList(toolName) ==
    IF toolName \in DOMAIN policies THEN policies[toolName] ELSE defaultPolicy

AccessDenied(toolName) == ToolExecutionError("AccessDenied", toolName, "none")

\* C4: LocalToolExecutor.executeTool with options.userRole = r on a
\* registered tool: with r outside the resolved allow-list (and r not the
\* administrator) the call fails with an access-denied error and the
\* handler is not invoked; with r in the list, or r the administrator
\* whatever the policy, the call is not denied, the handler runs on valid
\* input, and a handler that completes makes the call succeed with its output.
C4_RoleDecidesAccess ==
    [][\A c \in CallIds :
          /\ (IsStartStep(c) /\ calls'[c].via = "executor"
                /\ calls'[c].options.userRole # "none" /\ hasTool(calls'[c].toolName))
             => LET call == calls'[c]
                    r == call.options.userRole
                    passes == r = ADMIN \/ r \in ResolvedAllowList(call.toolName)
                IN /\ ~passes => /\ call.outcome = "failure"
                                 /\ call.error = AccessDenied(call.toolName)
                                 /\ call.invoked = 0
                   /\ passes => /\ call.error.kind # "AccessDenied"
                                /\ SchemaAccepts(call.tool.schema, call.input)
                                      => (call.invoked = 1 \/ call.outcome = "success")
          /\ calls'[c].error.kind = "AccessDenied"
                => calls'[c].invoked = 0 /\ calls'[c].handler = "none"
          /\ (calls'[c].via = "executor" /\ calls'[c].options.userRole # "none"
                /\ calls'[c].handler = "resolved")
                => /\ calls'[c].outcome = "success"
                   /\ calls'[c].result.result = TrueOutput(calls'[c])]_vars

\* under a policy of the tool that excludes both, a guest has been denied
\* and an administrator has been served by the handler
C4_Witness ==
    \E c1, c2 \in CallIds :
        /\ "secure" \in DOMAIN policies /\ policies["secure"] = {USER}
        /\ calls[c1].via = "executor" /\ calls[c1].options.userRole = GUEST
        /\ calls[c1].error = AccessDenied("secure") /\ calls[c1].invoked = 0
        /\ calls[c2].via = "executor" /\ calls[c2].options.userRole = ADMIN
        /\ calls[c2].pc = "done" /\ calls[c2].outcome = "success"
        /\ calls[c2].invoked = 1

\* C5: a call made through the facade with {userRole} is subject to access
\* control: tagged with a role outside the tool's allow-list (guest, under
\* a policy allowing only admin and user) it is rejected.
C5_FacadeEnforcesAccessControl ==
    [][\A c \in CallIds :
          (/\ IsStartStep(c)
           /\ calls'[c].via = "facade"
           /\ hasTool(calls'[c].toolName)
           /\ calls'[c].passed.userRole = GUEST
           /\ GUEST \notin ResolvedAllowList(calls'[c].toolName))
              => /\ calls'[c].outcome = "failure"
                 /\ calls'[c].error = AccessDenied(calls'[c].toolName)
                 /\ calls'[c].invoked = 0]_vars

(***************************************************************************)
(* SpecFacade: invocations of one tool named "add", declared with or       *)
(* without a config, with conforming and violating inputs, through the     *)
(* facade (with or without a default timeout) or the bare executor.        *)
(***************************************************************************)
FacadeToolDefs == {ToolAdd, ToolAdd2}
FacadeInputs == {InputSum, InputBad}

NextFacade ==
    \/ \E t \in FacadeToolDefs : tools = << >> /\ RegistryRegister(t)
    \/ \E t \in FacadeToolDefs : tools = << >> /\ Register(t)
    \/ \E c \in CallIds, i \in FacadeInputs : ExecuteTool(c, "add", i, NoOptions)
    \/ \E c \in CallIds, i \in FacadeInputs : FacadeExecuteTool(c, "add", i, NoOptions)
    \/ \E c \in CallIds : HandlerResolves(c)
    \/ \E c \in CallIds : HandlerRejects(c)
    \/ \E c \in CallIds : FacadeContinues(c)
    \/ CacheClear

SpecFacade == Init /\ [][NextFacade]_vars

(***************************************************************************)
(* Validation, event and default timeout claims                            *)
(***************************************************************************)
ValidationError(toolName) == ToolExecutionError("ValidationError", toolName, "ZodError")

\* the invocation reaches the validation step: the tool is registered and
\* the cache probe misses
ReachesValidation(call) ==
    /\ hasTool(call.toolName)
    /\ ~(UseCache(call.options)
            /\ CacheGet(cache, generateCacheKey(call.toolName, call.input), now).found)

\* C6: an input that violates the tool's schema makes executeTool fail with
\* a validation error carrying the tool name, without the handler being
\* invoked; a conforming input makes the handler run on the validated
\* value, and the handler's output is what the call returns.
C6_ValidationGatesHandler ==
    [][\A c \in CallIds :
          /\ (IsStartStep(c) /\ ReachesValidation(calls'[c]))
             => LET call == calls'[c]
                IN IF SchemaAccepts(call.tool.schema, call.input)
                   THEN /\ call.invoked = 1
                        /\ call.validated = SchemaParse(call.tool.schema, call.input)
                   ELSE /\ call.outcome = "failure"
                        /\ call.error = ValidationError(call.toolName)
                        /\ call.invoked = 0
          /\ calls'[c].error.kind = "ValidationError" => calls'[c].invoked = 0
          /\ (calls[c].handler = "pending" /\ calls'[c].handler = "resolved")
             => /\ calls'[c].outcome = "success"
                /\ calls'[c].result.result =
                      HandlerOutput(calls'[c].tool.handler, calls'[c].validated)]_vars

\* the events the facade has emitted for invocation c, in order
EventsOf(c) == SelectSeq(emitted, LAMBDA e : e.call = c)

\* C7: for every call of the facade's executeTool, tool_execution_started
\* comes first, before tool_execution_completed on success and before
\* tool_execution_failed on failure, and no call emits both
\* tool_execution_completed and tool_execution_failed.
C7_StartedThenOneTerminalEvent ==
    \A c \in CallIds :
        LET es == EventsOf(c)
        IN /\ es # << >> => es[1].type = TOOL_EXECUTION_STARTED
           /\ \A i \in 2..Len(es) : es[i].type # TOOL_EXECUTION_STARTED
           /\ ~\E i, j \in 1..Len(es) : /\ es[i].type = TOOL_EXECUTION_COMPLETED
                                        /\ es[j].type = TOOL_EXECUTION_FAILED
           /\ (calls[c].via = "facade" /\ calls[c].pc = "done") =>
                 /\ Len(es) = 2
                 /\ es[2].type = IF calls[c].outcome = "success"
                                 THEN TOOL_EXECUTION_COMPLETED
                                 ELSE TOOL_EXECUTION_FAILED

\* one facade call has completed and another has failed, each with its events
C7_Witness ==
    \E c1, c2 \in CallIds :
        /\ calls[c1].via = "facade" /\ calls[c1].pc = "done"
        /\ calls[c1].outcome = "success"
        /\ EventsOf(c1)[2].type = TOOL_EXECUTION_COMPLETED
        /\ calls[c2].via = "facade" /\ calls[c2].pc = "done"
        /\ calls[c2].outcome = "failure"
        /\ EventsOf(c2)[2].type = TOOL_EXECUTION_FAILED

\* C10: on a facade constructed with defaultTimeoutSeconds, executeTool on
\* a registered tool that declares no config, with valid input and a
\* handler that does not fail, succeeds and returns the tool name, the
\* handler's output and a non-negative executionTimeMs.
C10_DefaultTimeoutCallSucceeds ==
    \A c \in CallIds :
        (/\ calls[c].via = "facade"
         /\ calls[c].pc = "done"
         /\ defaultTimeoutSeconds # 0
         /\ calls[c].tool # NoTool
         /\ ~calls[c].tool.config.present
         /\ SchemaAccepts(calls[c].tool.schema, calls[c].input)
         /\ calls[c].handler # "rejected")
            => /\ calls[c].outcome = "success"
               /\ calls[c].result.toolName = calls[c].toolName
               /\ calls[c].result.result = TrueOutput(calls[c])
               /\ calls[c].result.executionTimeMs >= 0

(***************************************************************************)
(* SpecOptions: one tool is registered, without config, with a configured  *)
(* timeout or with caching disabled in its config, and the executor is     *)
(* called with and without per-call timeoutMs and useCache options.        *)
(***************************************************************************)
OptionsToolDefs == {ToolAdd, ToolSlow, ToolNoCache}
OptionsOptions ==
    { NoOptions,
      [NoOptions EXCEPT !.timeoutMs = 500],
      [NoOptions EXCEPT !.useCache = "true"] }
OptionsTickSteps == {500, 501}

NextOptions ==
    \/ \E t \in OptionsToolDefs : tools = << >> /\ RegistryRegister(t)
    \/ \E c \in CallIds, o \in OptionsOptions :
            tools # << >> /\ ExecuteTool(c, tools[1].name, InputSum, o)
    \/ \E c \in CallIds : HandlerResolves(c)
    \/ \E c \in CallIds : HandlerRejects(c)
    \/ \E c \in CallIds : TimeoutFires(c)
    \/ \E d \in OptionsTickSteps : Tick(d)

SpecOptions == Init /\ [][NextOptions]_vars

(***************************************************************************)
(* Option resolution claims                                                *)
(***************************************************************************)
\* the timeout the priority order gives: the per-call option, else the
\* tool's configured timeout, else none (0)
EffectiveTimeoutMs(tool, options) ==
    IF options.timeoutMs # 0 THEN options.timeoutMs
    ELSE IF tool.config.present /\ tool.config.timeoutSeconds # 0
         THEN tool.config.timeoutSeconds * 1000
         ELSE 0

\* C11: the effective timeout of an executor call is options.timeoutMs when
\* supplied, else the tool's timeoutSeconds x 1000 when configured, else
\* none; a per-call timeout wins over a different configured one and
\* applies to a tool without config.
C11_PerCallTimeoutHasPriority ==
    [][\A c \in CallIds :
          (/\ IsStartStep(c)
           /\ calls'[c].via = "executor"
           /\ ReachesValidation(calls'[c])
           /\ Authorized(calls'[c].toolName, calls'[c].options)
           /\ SchemaAccepts(getTool(calls'[c].toolName).schema, calls'[c].input))
             => LET call == calls'[c]
                    ms == EffectiveTimeoutMs(getTool(call.toolName), call.options)
                IN /\ call.invoked = 1
                   /\ call.timeoutMs = ms
                   /\ call.timer = IF ms # 0 THEN "armed" ELSE "none"]_vars

\* whether caching applies as the resolution order gives it: the per-call
\* option, else the tool's config.enableCache, else enabled
CachingApplies(tool, options) ==
    IF options.useCache # "unset" THEN options.useCache = "true"
    ELSE IF tool.config.present /\ tool.config.enableCache # "unset"
         THEN tool.config.enableCache = "true"
         ELSE TRUE

\* C12: caching applies to a call as options.useCache says when supplied,
\* else as the tool's config.enableCache says when set, else it is enabled;
\* a call for which it does not apply is not served from the cache and
\* does not write to it.
C12_EnableCacheHonoured ==
    [][\A c \in CallIds :
          /\ (/\ IsStartStep(c)
              /\ hasTool(calls'[c].toolName)
              /\ ~CachingApplies(getTool(calls'[c].toolName), calls'[c].options))
                => /\ cache' = cache
                   /\ ~(calls'[c].outcome = "success" /\ calls'[c].invoked = 0)
          /\ (/\ calls[c].handler = "pending" /\ calls'[c].handler = "resolved"
              /\ ~CachingApplies(calls[c].tool, calls[c].options))
                => cache' = cache]_vars

(***************************************************************************)
(* Cache hit claim                                                         *)
(***************************************************************************)
\* the cache holds an entry under the key whose TTL has not elapsed
LiveEntry(key) ==
    \E i \in 1..Len(cache) :
        /\ cache[i].key = key
        /\ (cache[i].ttlMs = 0 \/ now - cache[i].timestamp <= cache[i].ttlMs)

\* C13: on a cache hit executeTool returns the stored result at once and
\* no further stage runs for that call: no validation, no handler call, no
\* metrics sample, and the cache entry is not rewritten.
C13_CacheHitRunsNoStage ==
    [][\A c \in CallIds :
          /\ (/\ IsStartStep(c)
              /\ hasTool(calls'[c].toolName)
              /\ Authorized(calls'[c].toolName, calls'[c].options)
              /\ UseCache(calls'[c].options)
              /\ LiveEntry(generateCacheKey(calls'[c].toolName, calls'[c].input)))
                => /\ calls'[c].pc \in {"settled", "done"}
                   /\ calls'[c].outcome = "success"
                   /\ \E i \in 1..Len(cache) :
                         /\ cache[i].key = generateCacheKey(calls'[c].toolName,
                                                            calls'[c].input)
                         /\ cache[i].value = calls'[c].result
                   /\ calls'[c].validated = << >>
                   /\ calls'[c].invoked = 0
                   /\ calls'[c].handler = "none"
                   /\ toolMetrics' = toolMetrics
                   /\ cache' = cache
          /\ (calls[c].outcome = "success" /\ calls[c].invoked = 0)
                => /\ calls'[c].invoked = 0
                   /\ calls'[c].handler = "none"
                   /\ calls'[c].result = calls[c].result]_vars

\* a call was served from the cache some time after the entry was written,
\* and the only metrics sample is that of the call that computed it
C13_Witness ==
    \E c \in CallIds :
        /\ calls[c].pc = "done"
        /\ calls[c].outcome = "success"
        /\ calls[c].invoked = 0
        /\ Len(toolMetrics) = 1
        /\ Len(cache) = 1
        /\ calls[c].settledAt > cache[1].timestamp

(***************************************************************************)
(* SpecEvents: a LocalAgentRPC whose listeners are added and removed while *)
(* a tool is registered and invoked.                                       *)
(***************************************************************************)
NextEvents ==
    \/ \E l \in Listeners : AddEventListener(l)
    \/ \E l \in Listeners : RemoveEventListener(l)
    \/ tools = << >> /\ Register(ToolAdd2)
    \/ \E c \in CallIds : FacadeExecuteTool(c, "add", InputSum, NoOptions)
    \/ \E c \in CallIds : HandlerResolves(c)
    \/ \E c \in CallIds : FacadeContinues(c)

SpecEvents == Init /\ [][NextEvents]_vars

(***************************************************************************)
(* Listener claims                                                         *)
(***************************************************************************)
\* the step makes one emitEvent call
IsEmitStep == Len(emitted') = Len(emitted) + 1

\* C14: an event is delivered within the emitting step to every listener
\* in registration order; a listener that raises does not keep the
\* listeners after it from receiving the event, does not make register or
\* executeTool fail and does not change the invocation's outcome.
C14_EveryListenerReceivesInOrder ==
    [][/\ IsEmitStep
          => /\ Len(delivered') = Len(eventListeners)
             /\ \A i \in 1..Len(eventListeners) :
                   /\ delivered'[i].listener = eventListeners[i]
                   /\ delivered'[i].event = emitted'[Len(emitted')]
       /\ ~IsEmitStep => delivered' = delivered
       /\ \A c \in CallIds :
             calls[c].pc = "settled"
                => /\ calls'[c].outcome = calls[c].outcome
                   /\ calls'[c].error = calls[c].error
                   /\ calls'[c].result = calls[c].result
       /\ \A t \in FacadeToolDefs :
             (IsRegisterStep(t) /\ ~hasTool(t.name))
                => ~lastOp'.threw /\ tools' = Append(tools, t)]_vars

\* with a raising listener registered before a plain one, the plain one has
\* received the completion event of a call right after the raising one
C14_Witness ==
    /\ Len(delivered) = 2
    /\ delivered[1].listener = "raising" /\ delivered[1].threw
    /\ delivered[2].listener = "plain"
    /\ delivered[2].event = delivered[1].event
    /\ delivered[1].event.type = TOOL_EXECUTION_COMPLETED
    /\ calls[delivered[1].event.call].pc = "done"
    /\ calls[delivered[1].event.call].outcome = "success"

\* the step is a removeEventListener(l) call
IsRemoveListenerStep(l) ==
    /\ lastOp'.op = "removeEventListener" /\ lastOp'.name = l
    /\ (lastOp' # lastOp \/ Len(eventListeners') < Len(eventListeners))

Registered(listeners, l) == \E i \in 1..Len(listeners) : listeners[i] = l

\* C15: once removeEventListener(l) has returned true, l is no longer
\* registered and receives no event of the register/executeTool calls
\* that follow, while the other listeners stay registered in their order; removeEventListener of a listener that is
\* not registered returns false and leaves the listener list unchanged.
C15_RemovedListenerReceivesNothing ==
    [][/\ \A l \in Listeners :
             IsRemoveListenerStep(l)
                => /\ lastOp'.returned = Registered(eventListeners, l)
                   /\ lastOp'.returned => ~Registered(eventListeners', l)
                   /\ ~lastOp'.returned => eventListeners' = eventListeners
                   /\ SelectSeq(eventListeners', LAMBDA x : x # l)
                         = SelectSeq(eventListeners, LAMBDA x : x # l)
       /\ (IsEmitStep /\ lastOp.op = "removeEventListener" /\ lastOp.returned)
             => \A i \in 1..Len(delivered') : delivered'[i].listener # lastOp.name]_vars

(***************************************************************************)
(* SpecErrors: 'slow' is registered and the executor is called on it and   *)
(* on an unregistered name, with inputs that conform, violate the schema   *)
(* or cannot be serialized, with and without a role that is denied, and    *)
(* with handlers that resolve, reject or outlast the timeout.              *)
(***************************************************************************)
ErrorsInputs == {InputSum, InputBad, InputBig}
ErrorsOptions ==
    { NoOptions,
      [NoOptions EXCEPT !.userRole = GUEST],
      [NoOptions EXCEPT !.useCache = "false"] }

NextErrors ==
    \/ tools = << >> /\ RegistryRegister(ToolSlow)
    \/ \E c \in CallIds, n \in ToolNames, i \in ErrorsInputs, o \in ErrorsOptions :
            ExecuteTool(c, n, i, o)
    \/ \E c \in CallIds : HandlerResolves(c)
    \/ \E c \in CallIds : HandlerRejects(c)
    \/ \E c \in CallIds : TimeoutFires(c)
    \/ \E d \in TimeoutTickSteps : Tick(d)

SpecErrors == Init /\ [][NextErrors]_vars

(***************************************************************************)
(* Error surfacing claims                                                  *)
(***************************************************************************)
\* C16: every failure raised by LocalToolExecutor.executeTool, whatever
\* stage it arises in, is a ToolExecutionError whose toolName is the
\* requested tool name, with the underlying cause attached when there is one.
C16_EveryFailureIsToolExecutionError ==
    \A c \in CallIds :
        (calls[c].via = "executor" /\ calls[c].outcome = "failure")
            => /\ calls[c].error.name = "ToolExecutionError"
               /\ calls[c].error.toolName = calls[c].toolName
               /\ calls[c].handler = "rejected" => calls[c].error.cause = "HandlerError"
               /\ calls[c].timer = "fired" => calls[c].error.cause = "Timeout"

\* the tool_execution_failed events emitted for invocation c
FailedEvents(c) ==
    SelectSeq(emitted, LAMBDA e : e.call = c /\ e.type = TOOL_EXECUTION_FAILED)

\* C17: when the executor fails for a facade call, the facade emits exactly
\* one tool_execution_failed event carrying the tool name and the error,
\* and the caller is then raised that same error: the failure is observable
\* both ways and never swallowed.
C17_FailureEmittedAndReraised ==
    \A c \in CallIds :
        /\ (calls[c].via = "facade" /\ calls[c].pc = "done"
                /\ calls[c].error # NoError)
              => /\ calls[c].outcome = "failure"
                 /\ Len(FailedEvents(c)) = 1
                 /\ FailedEvents(c)[1].toolName = calls[c].toolName
                 /\ FailedEvents(c)[1].error = calls[c].error
        /\ (calls[c].via = "facade" /\ calls[c].pc = "settled")
              => FailedEvents(c) = << >>
        /\ FailedEvents(c) # << >>
              => /\ calls[c].pc = "done"
                 /\ calls[c].outcome = "failure"
                 /\ calls[c].error = FailedEvents(c)[1].error

\* a facade call failed in validation: its one failure event carries the
\* error the caller was raised
C17_Witness ==
    \E c \in CallIds :
        /\ calls[c].via = "facade" /\ calls[c].pc = "done"
        /\ calls[c].outcome = "failure"
        /\ calls[c].error = ValidationError("add")
        /\ FailedEvents(c) = << FailedEvent(c) >>

(***************************************************************************)
(* SpecPolicies: the Access Policy Store under every sequence of its       *)
(* operations, empty allow-lists included, while role-tagged invocations   *)
(* go through the executor.                                                *)
(***************************************************************************)
PolicyToolNames == {"secure", "slow"}
PolicyRoleSets == { {}, {USER} }
PolicyRoles == {ADMIN, USER}
PolicyOptions == { [NoOptions EXCEPT !.userRole = r] : r \in PolicyRoles }

NextPolicies ==
    \/ tools = << >> /\ RegistryRegister(ToolSecure)
    \/ \E n \in PolicyToolNames, rs \in PolicyRoleSets : AddPolicy(n, rs)
    \/ \E n \in PolicyToolNames : RemovePolicy(n)
    \/ \E rs \in PolicyRoleSets : SetDefaultPolicy(rs)
    \/ ClearPolicies
    \/ \E c \in CallIds, o \in PolicyOptions : ExecuteTool(c, "secure", InputSum, o)
    \/ \E c \in CallIds : HandlerResolves(c)

SpecPolicies == Init /\ [][NextPolicies]_vars

\* C18: in every reachable state of the Access Policy Store, whatever
\* sequence of addPolicy, removePolicy, setDefaultPolicy and clearPolicies
\* produced it (empty allow-lists included), isAllowed(toolName,
\* administrator) is true for every tool name, and no invocation tagged
\* with the administrator role has been denied access.
C18_AdministratorAlwaysAllowed ==
    /\ \A n \in PolicyToolNames \cup {"add"} : isAllowed(n, ADMIN)
    /\ \A c \in CallIds :
          calls[c].options.userRole = ADMIN => calls[c].error.kind # "AccessDenied"

\* the store holds an empty allow-list for the tool and an empty default
\* list, and an administrator's invocation started under them has succeeded
C18_Witness ==
    \E c \in CallIds :
        /\ "secure" \in DOMAIN policies /\ policies["secure"] = {}
        /\ defaultPolicy = {}
        /\ calls[c].options.userRole = ADMIN
        /\ calls[c].pc = "done" /\ calls[c].outcome = "success"
        /\ calls[c].invoked = 1

\* a step of one of the four store operations
IsPolicyStep ==
    lastOp'.op \in {"addPolicy", "removePolicy", "setDefaultPolicy", "clearPolicies"}
    /\ (policies' # policies \/ defaultPolicy' # defaultPolicy \/ lastOp' # lastOp)

\* C19: the policy is evaluated per call against the store's current
\* contents.  addPolicy upserts (the last write for a tool is the policy in
\* force); an invocation that starts is authorized by the store as it is at
\* that moment, whatever it held at earlier calls; a store operation leaves
\* every invocation as it was, and an invocation already past authorization
\* completes with its handler's output whatever the store holds by then.
C19_PolicyEvaluatedPerCall ==
    [][/\ (IsPolicyStep /\ lastOp'.op = "addPolicy")
             => /\ lastOp'.name \in DOMAIN policies'
                /\ policies'[lastOp'.name] = lastOp'.roles
                /\ \A n \in DOMAIN policies \ {lastOp'.name} :
                      n \in DOMAIN policies' /\ policies'[n] = policies[n]
       /\ IsPolicyStep => calls' = calls
       /\ \A c \in CallIds :
             /\ (IsStartStep(c) /\ calls'[c].options.userRole # "none"
                   /\ hasTool(calls'[c].toolName))
                => LET r == calls'[c].options.userRole
                       list == ResolvedAllowList(calls'[c].toolName)
                   IN (calls'[c].error.kind = "AccessDenied")
                         <=> (r # ADMIN /\ r \notin list)
             /\ (calls[c].pc = "running" /\ calls'[c].pc = "done"
                   /\ calls'[c].handler = "resolved" /\ calls[c].timer # "fired")
                => /\ calls'[c].outcome = "success"
                   /\ calls'[c].result.result =
                         HandlerOutput(calls[c].tool.handler, calls[c].validated)
      ]_vars

\* two invocations of the same tool with the same role: the first ran the
\* handler and succeeded, the policy was then replaced, and the second was
\* denied
C19_Witness ==
    \E c1, c2 \in CallIds :
        /\ c1 < c2
        /\ calls[c1].toolName = "secure" /\ calls[c2].toolName = "secure"
        /\ calls[c1].options.userRole = USER /\ calls[c2].options.userRole = USER
        /\ calls[c1].outcome = "success" /\ calls[c1].invoked = 1
        /\ calls[c2].error = AccessDenied("secure")
        /\ "secure" \in DOMAIN policies /\ policies["secure"] = {}

(***************************************************************************)
(* SpecExpiry: the ToolCache used directly (set, get, has, cleanup) while  *)
(* the clock advances past the entries' time-to-live.                      *)
(***************************************************************************)
ExpiryKeys == { generateCacheKey("add", InputSum), generateCacheKey("add", InputOther) }
ExpiryValues == { [toolName |-> "add", result |-> HandlerOutput("sum", InputSum),
                   executionTimeMs |-> 1] }
ExpiryTtls == {0, 500}

NextExpiry ==
    \/ \E k \in ExpiryKeys, v \in ExpiryValues, ttl \in ExpiryTtls : ToolCacheSet(k, v, ttl)
    \/ \E k \in ExpiryKeys : ToolCacheGet(k)
    \/ \E k \in ExpiryKeys : ToolCacheHas(k)
    \/ ToolCacheCleanup
    \/ \E d \in TimeoutTickSteps : Tick(d)

SpecExpiry == Init /\ [][NextExpiry]_vars

\* a get or has of the key
IsReadStep(key) ==
    /\ lastOp'.op \in {"get", "has"}
    /\ lastOp'.name = key
    /\ lastOp' # lastOp \/ cache' # cache

\* C20: an entry set with ttl = T > 0 is returned by get and reported by has
\* at any time before T has elapsed since its creation, and is absent at any
\* time after T has elapsed even though the Map still holds it (the read
\* then deletes it); an entry set with ttl = 0 is returned and reported
\* whatever time has passed.
C20_TtlDecidesPresence ==
    [][\A k \in ExpiryKeys :
          (IsReadStep(k) /\ CacheHasKey(cache, k))
             => LET e == CacheEntryOf(cache, k)
                    elapsed == now - e.timestamp
                    present == /\ lastOp'.returned
                               /\ lastOp'.op = "get" => lastOp'.value = e.value
                               /\ cache' = cache
                    absent == /\ ~lastOp'.returned
                              /\ lastOp'.value = NoResult
                              /\ ~CacheHasKey(cache', k)
                IN /\ (e.ttlMs > 0 /\ elapsed < e.ttlMs) => present
                   /\ (e.ttlMs > 0 /\ elapsed > e.ttlMs) => absent
                   /\ e.ttlMs = 0 => present
      ]_vars

\* has has just reported absent an entry that the Map still held past its
\* time-to-live and deleted it, while an entry with ttl 0 of the same age or
\* older is still stored
C20_Witness ==
    /\ lastOp.op = "has" /\ ~lastOp.returned /\ lastOp.stored
    /\ ~CacheHasKey(cache, lastOp.name)
    /\ \E i \in 1..Len(cache) : cache[i].ttlMs = 0 /\ now - cache[i].timestamp > 500


(***************************************************************************)
(* SpecMetrics: invocations whose metrics sample cannot be built, because  *)
(* the handler's output or the input cannot be serialized.                 *)
(***************************************************************************)
MetricsInputs == {InputSum, InputBigExtra}
MetricsOptions == { NoOptions, [NoOptions EXCEPT !.useCache = "false"] }

NextMetrics ==
    \/ tools = << >> /\ RegistryRegister(ToolBig)
    \/ tools = << >> /\ Register(ToolBig)
    \/ \E c \in CallIds, i \in MetricsInputs, o \in MetricsOptions :
            ExecuteTool(c, "big", i, o)
    \/ \E c \in CallIds, i \in MetricsInputs : FacadeExecuteTool(c, "big", i, NoOptions)
    \/ \E c \in CallIds : HandlerResolves(c)
    \/ \E c \in CallIds : HandlerRejects(c)
    \/ \E c \in CallIds : FacadeContinues(c)
    \/ \E d \in TimeoutTickSteps : Tick(d)

SpecMetrics == Init /\ [][NextMetrics]_vars

\* the handler of invocation c resolves in this step
IsResolveStep(c) ==
    calls[c].pc = "running" /\ calls'[c].pc # "running" /\ calls'[c].handler = "resolved"

\* the result object built from the handler's output when c's handler resolves
ResultOf(c) ==
    [toolName |-> calls[c].toolName,
     result |-> HandlerOutput(calls[c].tool.handler, calls[c].validated),
     executionTimeMs |-> now - calls[c].execStart]

\* C21: when recording metrics throws for an invocation whose handler
\* resolved, the error is not propagated: the invocation succeeds with the
\* result built from the handler's output, no sample is recorded, the
\* result is stored in the cache when caching is enabled, and a facade call
\* emits tool_execution_completed and no tool_execution_failed.
C21_MetricsFailureSwallowed ==
    [][\A c \in CallIds :
          /\ (IsResolveStep(c) /\ CollectMetrics(calls[c].options)
                /\ MetricsThrows(calls[c], ResultOf(c)))
             => /\ calls'[c].outcome = "success"
                /\ calls'[c].error = NoError
                /\ calls'[c].result = ResultOf(c)
                /\ toolMetrics' = toolMetrics
                /\ UseCache(calls[c].options)
                     => LET key == generateCacheKey(calls[c].toolName, calls[c].input)
                        IN /\ CacheHasKey(cache', key)
                           /\ CacheEntryOf(cache', key).value = ResultOf(c)
          /\ (calls[c].pc = "settled" /\ calls'[c].pc = "done"
                /\ calls[c].handler = "resolved")
             => /\ Len(emitted') = Len(emitted) + 1
                /\ emitted'[Len(emitted')].type = TOOL_EXECUTION_COMPLETED
                /\ emitted'[Len(emitted')].result = calls[c].result
      ]_vars

\* a facade invocation whose handler returned a BigInt is done: it
\* succeeded, its result is cached, no sample was recorded and its only
\* terminal event is tool_execution_completed
C21_Witness ==
    \E c \in CallIds :
        /\ calls[c].via = "facade" /\ calls[c].pc = "done"
        /\ calls[c].handler = "resolved" /\ calls[c].outcome = "success"
        /\ StringifyThrows(calls[c].result.result)
        /\ toolMetrics = << >>
        /\ CacheHasKey(cache, generateCacheKey("big", calls[c].input))
        /\ Len(TerminalEvents(emitted, c)) = 1
        /\ TerminalEvents(emitted, c)[1].type = TOOL_EXECUTION_COMPLETED


(***************************************************************************)
(* SpecFingerprint: the same tool called with inputs that hold the same    *)
(* properties written in different orders.                                 *)
(***************************************************************************)
FingerprintInputs == {InputSum, InputSumReordered}

NextFingerprint ==
    \/ tools = << >> /\ RegistryRegister(ToolAdd)
    \/ tools = << >> /\ Register(ToolAdd)
    \/ \E c \in CallIds, i \in FingerprintInputs, o \in CacheOptions :
            ExecuteTool(c, "add", i, o)
    \/ \E c \in CallIds, i \in FingerprintInputs : FacadeExecuteTool(c, "add", i, NoOptions)
    \/ \E c \in CallIds : HandlerResolves(c)
    \/ \E c \in CallIds : FacadeContinues(c)
    \/ \E d \in CacheTickSteps : Tick(d)

SpecFingerprint == Init /\ [][NextFingerprint]_vars

\* two objects with the same keys bound to the same values
StructurallyEqual(a, b) ==
    /\ \A i \in 1..Len(a) : HasKey(b, a[i].key) /\ GetKey(b, a[i].key) = a[i].val
    /\ \A i \in 1..Len(b) : HasKey(a, b[i].key) /\ GetKey(a, b[i].key) = b[i].val

\* C22: the cache fingerprint is the same for structurally equal inputs
\* whatever the order of their keys, so a call to the same tool with an
\* input that differs from an earlier, cached call's input only in key
\* order is served from the cache: the handler is not invoked again and the
\* earlier result is returned.
C22_KeyOrderIndependentFingerprint ==
    [][\A c1, c2 \in CallIds :
          (c1 # c2 /\ IsStartStep(c2) /\ ComputedAndCached(c1) /\ EntryOfCallLive(c1)
             /\ calls'[c2].toolName = calls[c1].toolName
             /\ StructurallyEqual(calls'[c2].input, calls[c1].input)
             /\ UseCache(calls'[c2].options)
             /\ hasTool(calls[c1].toolName))
          => /\ generateCacheKey(calls'[c2].toolName, calls'[c2].input)
                  = generateCacheKey(calls[c1].toolName, calls[c1].input)
             /\ calls'[c2].invoked = 0
             /\ calls'[c2].outcome = "success"
             /\ calls'[c2].result = calls[c1].result]_vars


(***************************************************************************)
(* SpecRegister: registrations through the facade, duplicates included,    *)
(* with listeners attached.                                                *)
(***************************************************************************)
RegisterToolDefs == {ToolAdd, ToolAdd2, ToolSlow}

NextRegister ==
    \/ \E l \in Listeners : AddEventListener(l)
    \/ \E t \in RegisterToolDefs : Register(t)

SpecRegister == Init /\ [][NextRegister]_vars

\* the step is a LocalAgentRPC.register call
IsFacadeRegisterStep ==
    lastOp'.op = "register" /\ lastOp'.n = lastOp.n + 1 /\ composition = "LocalAgentRPC"

\* the tool_registered events emitted for a tool name
RegisteredEvents(log, name) ==
    SelectSeq(log, LAMBDA e : e.type = TOOL_REGISTERED /\ e.toolName = name)

\* C23: a successful LocalAgentRPC.register(tool) emits tool_registered
\* with {toolName} exactly once, to every listener, and only after the tool
\* is in the registry, so getTool(toolName) called from inside a listener
\* returns the tool; a registration rejected as a duplicate emits no event
\* and leaves the registry as it was.
C23_RegisteredEventAfterRegistration ==
    [][IsFacadeRegisterStep
          => /\ ~lastOp'.threw
                  => /\ Len(emitted') = Len(emitted) + 1
                     /\ emitted'[Len(emitted')].type = TOOL_REGISTERED
                     /\ emitted'[Len(emitted')].toolName = lastOp'.name
                     /\ SubSeq(emitted', 1, Len(emitted)) = emitted
                     /\ ToolsGet(tools', lastOp'.name).id = lastOp'.id
                     /\ Len(delivered') = Len(eventListeners)
                     /\ \A i \in 1..Len(delivered') :
                           /\ delivered'[i].event = emitted'[Len(emitted')]
                           /\ delivered'[i].listener = eventListeners[i]
                     /\ eventListeners # << >> => lastOp'.seen = lastOp'.id
             /\ lastOp'.threw
                  => /\ emitted' = emitted
                     /\ delivered' = delivered
                     /\ tools' = tools
                     /\ lastOp'.seen = 0
      ]_vars

\* with a listener attached, 'add' was registered, then a second definition
\* under the same name was rejected: one tool_registered event for 'add',
\* and the last registration to succeed was seen by its listener
C23_Witness ==
    /\ eventListeners # << >>
    /\ lastOp.op = "register" /\ ~lastOp.threw /\ lastOp.seen = lastOp.id
    /\ lastOp.n = 3
    /\ Len(RegisteredEvents(emitted, "add")) = 1
    /\ Len(emitted) = 2
    /\ Len(delivered) = Len(eventListeners)


(***************************************************************************)
(* SpecNotFound: invocations of names that are not registered, or no       *)
(* longer registered while the cache still holds their results.            *)
(***************************************************************************)
NotFoundInputs == {InputSum, InputBad}
NotFoundOptions == { NoOptions, [NoOptions EXCEPT !.userRole = GUEST] }

NextNotFound ==
    \/ tools = << >> /\ RegistryRegister(ToolAdd2)
    \/ tools = << >> /\ Register(ToolAdd2)
    \/ RemoveTool("add")
    \/ \E c \in CallIds, n \in ToolNames, i \in NotFoundInputs, o \in NotFoundOptions :
            ExecuteTool(c, n, i, o)
    \/ \E c \in CallIds, n \in ToolNames : FacadeExecuteTool(c, n, InputSum, NoOptions)
    \/ \E c \in CallIds : HandlerResolves(c)
    \/ \E c \in CallIds : FacadeContinues(c)
    \/ \E d \in CacheTickSteps : Tick(d)

SpecNotFound == Init /\ [][NextNotFound]_vars

NotFound(toolName) == ToolExecutionError("NotFound", toolName, "none")

\* C24: executeTool on a name that is not registered fails with a
\* tool-not-found error carrying that name before any other stage runs:
\* whatever the role, the input and the cache hold, access is not checked,
\* the cache is not probed, the input is not validated, the handler is not
\* called, and cache and metrics are left as they were.
C24_NotFoundBeforeAnyStage ==
    [][\A c \in CallIds :
          (IsStartStep(c) /\ ~hasTool(calls'[c].toolName))
             => /\ calls'[c].outcome = "failure"
                /\ calls'[c].error = NotFound(calls'[c].toolName)
                /\ calls'[c].pc # "running"
                /\ calls'[c].invoked = 0
                /\ calls'[c].handler = "none"
                /\ calls'[c].validated = << >>
                /\ calls'[c].result = NoResult
                /\ cache' = cache
                /\ toolMetrics' = toolMetrics
      ]_vars

\* after 'add' computed and cached a result and was removed, a guest's
\* invocation of it with the same input failed as not found while the cache
\* holds the live result for that name and input
C24_Witness ==
    \E c1, c2 \in CallIds :
        /\ ~hasTool("add")
        /\ calls[c1].toolName = "add" /\ calls[c1].input = InputSum
        /\ calls[c1].outcome = "success" /\ calls[c1].invoked = 1
        /\ LiveEntry(generateCacheKey("add", InputSum))
        /\ calls[c2].toolName = "add" /\ calls[c2].input = InputSum
        /\ calls[c2].options.userRole = GUEST
        /\ calls[c2].error = NotFound("add")


(***************************************************************************)
(* SpecNoRole: invocations without a role, and with one, while the store   *)
(* is driven to empty allow-lists.                                         *)
(***************************************************************************)
NoRoleOptions == { NoOptions, [NoOptions EXCEPT !.userRole = USER] }
NoRoleInputs == {InputSum, InputBad}

NextNoRole ==
    \/ tools = << >> /\ RegistryRegister(ToolSecure)
    \/ tools = << >> /\ Register(ToolSecure)
    \/ \E rs \in PolicyRoleSets : AddPolicy("secure", rs)
    \/ \E rs \in PolicyRoleSets : SetDefaultPolicy(rs)
    \/ \E c \in CallIds, i \in NoRoleInputs, o \in NoRoleOptions :
            ExecuteTool(c, "secure", i, o)
    \/ \E c \in CallIds : FacadeExecuteTool(c, "secure", InputSum, NoOptions)
    \/ \E c \in CallIds : HandlerResolves(c)
    \/ \E c \in CallIds : FacadeContinues(c)

SpecNoRole == Init /\ [][NextNoRole]_vars

\* C25: an invocation whose options carry no role skips the Authorize
\* stage: whatever the tool's policy and the default policy hold, empty
\* allow-lists included, it is not denied access and goes on to the later
\* stages (served from a live cache entry, else validated, and on a valid
\* input handed to the handler).
C25_NoRoleSkipsAuthorize ==
    [][\A c \in CallIds :
          (IsStartStep(c) /\ calls'[c].options.userRole = "none"
             /\ hasTool(calls'[c].toolName))
          => LET call == calls'[c]
                 live == /\ UseCache(call.options)
                         /\ LiveEntry(generateCacheKey(call.toolName, call.input))
             IN /\ call.error.kind # "AccessDenied"
                /\ live => call.outcome = "success" /\ call.invoked = 0
                /\ (~live /\ ~SchemaAccepts(call.tool.schema, call.input))
                     => call.error = ValidationError(call.toolName)
                /\ (~live /\ SchemaAccepts(call.tool.schema, call.input))
                     => call.pc = "running" /\ call.invoked = 1
      ]_vars

\* with an empty allow-list for the tool and an empty default list, an
\* invocation without a role succeeded and one with the user role was denied
C25_Witness ==
    \E c1, c2 \in CallIds :
        /\ "secure" \in DOMAIN policies /\ policies["secure"] = {}
        /\ defaultPolicy = {}
        /\ calls[c1].options.userRole = USER
        /\ calls[c1].error = AccessDenied("secure")
        /\ c1 < c2
        /\ calls[c2].options.userRole = "none"
        /\ calls[c2].outcome = "success" /\ calls[c2].invoked = 1


(***************************************************************************)
(* SpecDeadline: invocations whose handler may never settle.  The event    *)
(* loop is fair to what it owes: the clock advances, a timer that is due   *)
(* runs its callback, and the continuation of a settled await runs.  No    *)
(* fairness is stated for the handler.  An invocation starts only while    *)
(* the longest configured deadline lies within MaxTime.                    *)
(***************************************************************************)
DeadlineToolDefs == {ToolSlow, ToolSecure}
DeadlineOptions == { NoOptions, [NoOptions EXCEPT !.timeoutMs = 500] }
DeadlineWithinHorizon == now + ToolSlow.config.timeoutSeconds * 1000 <= MaxTime

NextDeadline ==
    \/ \E t \in DeadlineToolDefs : tools = << >> /\ RegistryRegister(t)
    \/ \E t \in DeadlineToolDefs : tools = << >> /\ Register(t)
    \/ \E c \in CallIds, o \in DeadlineOptions :
            tools # << >> /\ DeadlineWithinHorizon
               /\ ExecuteTool(c, tools[1].name, InputSum, o)
    \/ \E c \in CallIds :
            tools # << >> /\ DeadlineWithinHorizon
               /\ FacadeExecuteTool(c, tools[1].name, InputSum, NoOptions)
    \/ \E c \in CallIds : HandlerResolves(c)
    \/ \E c \in CallIds : HandlerRejects(c)
    \/ \E c \in CallIds : TimeoutFires(c)
    \/ \E c \in CallIds : FacadeContinues(c)
    \/ \E d \in TimeoutTickSteps : Tick(d)

DeadlineFairness ==
    /\ WF_vars(\E d \in TimeoutTickSteps : Tick(d))
    /\ \A c \in CallIds : WF_vars(TimeoutFires(c))
    /\ \A c \in CallIds : WF_vars(FacadeContinues(c))

SpecDeadline == Init /\ [][NextDeadline]_vars /\ DeadlineFairness

\* invocation c has started with an effective timeout in force whose
\* deadline lies within MaxTime
StartedUnderTimeout(c) ==
    /\ calls[c].pc # "idle"
    /\ EffectiveTimeoutMs(calls[c].tool, calls[c].options) # 0
    /\ calls[c].execStart + EffectiveTimeoutMs(calls[c].tool, calls[c].options) <= MaxTime

\* invocation c has settled and, through the facade, its one terminal event
\* has been emitted
SettledAndReported(c) ==
    /\ calls[c].pc = "done"
    /\ calls[c].outcome \in {"success", "failure"}
    /\ calls[c].via = "facade" => Len(TerminalEvents(emitted, c)) = 1

\* C26: when an effective timeout is in force, every executeTool invocation
\* eventually settles (success, handler failure or timeout) even if the
\* handler never settles, and through the facade its tool_execution_started
\* is eventually followed by exactly one tool_execution_completed or
\* tool_execution_failed.
C26_SettlesUnderTimeout ==
    \A c \in CallIds : StartedUnderTimeout(c) ~> SettledAndReported(c)


(***************************************************************************)
(* SpecIsolation: two LocalAgentRPC instances of one process, each with a  *)
(* tool registered under the name 'add', called with the same inputs.      *)
(***************************************************************************)
NextIsolation ==
    \/ tools = << >> /\ Register(ToolAdd)
    \/ peerTools = << >> /\ PeerRegister(ToolAdd2)
    \/ \E c \in CallIds, i \in CacheInputs : FacadeExecuteTool(c, "add", i, NoOptions)
    \/ \E c \in CallIds, i \in CacheInputs : PeerExecuteTool(c, "add", i)
    \/ \E c \in CallIds : HandlerResolves(c)
    \/ \E c \in CallIds : FacadeContinues(c)
    \/ \E d \in CacheTickSteps : Tick(d)

SpecIsolation == Init /\ [][NextIsolation]_vars

\* the two invocations were made on the same instance
SameInstance(call1, call2) == (call1.via = "peer") <=> (call2.via = "peer")

\* C27: two LocalAgentRPC instances are isolated from each other: a result
\* that executeTool returns on one instance without running the handler was
\* computed and stored by an invocation of the same tool and input on that
\* same instance, also when both instances register a tool under the same
\* name and are called with the same input.
C27_InstancesIsolated ==
    [][\A c \in CallIds :
          (IsStartStep(c) /\ calls'[c].outcome = "success")
             => \E d \in CallIds \ {c} :
                   /\ SameInstance(calls[d], calls'[c])
                   /\ calls[d].invoked = 1
                   /\ calls[d].toolName = calls'[c].toolName
                   /\ calls[d].input = calls'[c].input
                   /\ calls[d].result = calls'[c].result
      ]_vars


(***************************************************************************)
(* SpecEviction: a ToolCache constructed with a small maxEntries, used     *)
(* directly with every string as a key, the empty string included.         *)
(***************************************************************************)
EvictionKeys == {""} \cup ExpiryKeys
EvictionCapacities == {1, 2}

InitEviction == \E m \in EvictionCapacities : Constructed(m, 1000)

NextEviction ==
    \/ \E k \in EvictionKeys, v \in ExpiryValues, ttl \in ExpiryTtls : ToolCacheSet(k, v, ttl)
    \/ \E k \in EvictionKeys : ToolCacheGet(k)
    \/ \E k \in EvictionKeys : ToolCacheHas(k)
    \/ \E k \in EvictionKeys : ToolCacheDelete(k)
    \/ CacheClear
    \/ ToolCacheCleanup
    \/ \E d \in TimeoutTickSteps : Tick(d)

SpecEviction == InitEviction /\ [][NextEviction]_vars

\* the step is a set of the key (clear, which leaves an empty cache, and
\* the clock do not record themselves in lastOp)
IsSetStep(key) ==
    /\ lastOp'.op = "set" /\ lastOp'.name = key
    /\ now' = now /\ cache' # << >>
    /\ lastOp' # lastOp \/ cache' # cache

\* the entries of a cache other than the one under the key
Others(c, key) == SelectSeq(c, LAMBDA e : e.key # key)

\* C28: with maxEntries = M >= 1 the cache holds at most M entries after
\* every operation, and a set performed at capacity removes exactly one
\* entry, one with the smallest creation timestamp among all stored
\* entries, and then inserts the new one.
C28_CacheBoundedOldestEvicted ==
    [][/\ Len(cache') <= maxEntries
       /\ \A k \in EvictionKeys :
             (IsSetStep(k) /\ Len(cache) >= maxEntries)
                => /\ CacheHasKey(cache', k)
                   /\ CacheEntryOf(cache', k).timestamp = now
                   /\ \E i \in 1..Len(cache) :
                         /\ \A j \in 1..Len(cache) :
                               cache[i].timestamp <= cache[j].timestamp
                         /\ Others(cache', k)
                               = Others(CacheDelete(cache, cache[i].key), k)
      ]_vars


(***************************************************************************)
(* SpecMetricsLimit: a PerformanceMonitor constructed with a small         *)
(* metricsLimit, recording samples of several tools, directly and through  *)
(* the executor.                                                           *)
(***************************************************************************)
MetricsLimits == {1, 2}
MetricsTimes == {1}

InitMetricsLimit == \E n \in MetricsLimits : Constructed(1000, n)

NextMetricsLimit ==
    \/ \E n \in ToolNames, ms \in MetricsTimes : RecordToolMetrics(n, ms)
    \/ tools = << >> /\ RegistryRegister(ToolAdd)
    \/ \E c \in CallIds :
            ExecuteTool(c, "add", InputSum, [NoOptions EXCEPT !.useCache = "false"])
    \/ \E c \in CallIds : HandlerResolves(c)
    \/ \E d \in TimeoutTickSteps : Tick(d)

SpecMetricsLimit == InitMetricsLimit /\ [][NextMetricsLimit]_vars

\* C29: the collector with limit N holds at most N tool samples, and they
\* are the most recently recorded ones in recording order across all tools
\* combined: every record appends its sample at the end and, when that
\* takes the count beyond N, drops the single oldest sample whatever tool
\* it belongs to.
C29_MetricsKeepMostRecent ==
    [][/\ Len(toolMetrics') <= metricsLimit
       /\ (\/ toolMetrics' # toolMetrics
           \/ lastOp'.op = "recordToolMetrics" /\ lastOp'.n = lastOp.n + 1)
             => LET sample == toolMetrics'[Len(toolMetrics')]
                    pushed == Append(toolMetrics, sample)
                IN /\ Len(toolMetrics') >= 1
                   /\ sample.timestamp = now
                   /\ toolMetrics' = IF Len(toolMetrics) < metricsLimit
                                     THEN pushed
                                     ELSE SubSeq(pushed, 2, Len(pushed))
      ]_vars

\* three samples were recorded under limit 2: the two kept are of
\* different tools and the older of them was recorded after the first one
C29_Witness ==
    /\ metricsLimit = 2
    /\ lastOp.op = "recordToolMetrics" /\ lastOp.n = 3
    /\ Len(toolMetrics) = 2
    /\ toolMetrics[1].toolName # toolMetrics[2].toolName
    /\ toolMetrics[1].timestamp > 0
    /\ toolMetrics[2].timestamp > toolMetrics[1].timestamp


(***************************************************************************)
(* SpecTtl: one definition of 'add' is registered, without a config or     *)
(* with config.cacheTimeSeconds = 1, and invocations of it populate the    *)
(* cache with and without a per-call cacheTtlMs.                           *)
(***************************************************************************)
TtlToolDefs == {ToolAdd, ToolAdd2}
TtlOptions ==
    { NoOptions,
      [NoOptions EXCEPT !.cacheTtlMs = 0],
      [NoOptions EXCEPT !.cacheTtlMs = 500] }

NextTtl ==
    \/ \E t \in TtlToolDefs : tools = << >> /\ RegistryRegister(t)
    \/ \E t \in TtlToolDefs : tools = << >> /\ Register(t)
    \/ \E c \in CallIds, o \in TtlOptions : ExecuteTool(c, "add", InputSum, o)
    \/ \E c \in CallIds :
            FacadeExecuteTool(c, "add", InputSum, [NoOptions EXCEPT !.cacheTtlMs = 500])
    \/ \E c \in CallIds : HandlerResolves(c)
    \/ \E c \in CallIds : FacadeContinues(c)
    \/ \E d \in TimeoutTickSteps : Tick(d)

SpecTtl == Init /\ [][NextTtl]_vars

\* C30: when the handler of an invocation with caching enabled resolves,
\* the entry stored under the invocation's fingerprint holds the result
\* that the invocation returns, stamped with the current time, and its TTL
\* is the per-call cacheTtlMs the executor was given when there is one,
\* else the tool's config.cacheTimeSeconds times 1000 when the config sets
\* one, else 300000 ms.
C30_CacheTtlPriority ==
    [][\A c \in CallIds :
          (IsResolveStep(c) /\ UseCache(calls[c].options))
             => LET key == generateCacheKey(calls[c].toolName, calls[c].input)
                    entry == CacheEntryOf(cache', key)
                    opts == calls[c].options
                    config == calls[c].tool.config
                IN /\ CacheHasKey(cache', key)
                   /\ entry.value = ResultOf(c)
                   /\ entry.value = calls'[c].result
                   /\ calls'[c].outcome = "success"
                   /\ entry.timestamp = now
                   /\ opts.cacheTtlMs # -1 => entry.ttlMs = opts.cacheTtlMs
                   /\ (opts.cacheTtlMs = -1 /\ config.present
                         /\ config.cacheTimeSeconds # 0)
                        => entry.ttlMs = config.cacheTimeSeconds * 1000
                   /\ (opts.cacheTtlMs = -1
                         /\ ~(config.present /\ config.cacheTimeSeconds # 0))
                        => entry.ttlMs = 300000
      ]_vars

\* an invocation of the tool configured with cacheTimeSeconds = 1 was given
\* cacheTtlMs = 500 and succeeded: the entry under its fingerprint holds its
\* result with a TTL of 500 ms
C30_Witness ==
    \E c \in CallIds :
        /\ calls[c].pc = "done" /\ calls[c].outcome = "success"
        /\ calls[c].tool = ToolAdd2
        /\ calls[c].options.cacheTtlMs = 500
        /\ calls[c].handler = "resolved"
        /\ LET key == generateCacheKey(calls[c].toolName, calls[c].input)
           IN /\ CacheHasKey(cache, key)
              /\ CacheEntryOf(cache, key).ttlMs = 500
              /\ CacheEntryOf(cache, key).value = calls[c].result


(***************************************************************************)
(* SpecPopulate: 'slow' (timeoutSeconds = 1) is registered; the executor   *)
(* is called on it and on an unregistered name with entries that expire    *)
(* after 500 ms, with conforming and violating inputs, with and without a  *)
(* denied role, and with handlers that resolve, reject or time out.        *)
(***************************************************************************)
PopulateInputs == {InputSum, InputBad}
PopulateOptions ==
    { [NoOptions EXCEPT !.cacheTtlMs = 500],
      [NoOptions EXCEPT !.cacheTtlMs = 500, !.userRole = GUEST] }

NextPopulate ==
    \/ tools = << >> /\ RegistryRegister(ToolSlow)
    \/ \E c \in CallIds, n \in ToolNames, i \in PopulateInputs, o \in PopulateOptions :
            ExecuteTool(c, n, i, o)
    \/ \E c \in CallIds : HandlerResolves(c)
    \/ \E c \in CallIds : HandlerRejects(c)
    \/ \E c \in CallIds : TimeoutFires(c)
    \/ \E d \in TimeoutTickSteps : Tick(d)

SpecPopulate == Init /\ [][NextPopulate]_vars

\* invocation c fails in this step
IsFailStep(c) == calls[c].outcome # "failure" /\ calls'[c].outcome = "failure"

\* the entries of cache c as a set
Entries(c) == { c[i] : i \in 1..Len(c) }

\* every entry that a step adds to the cache or rewrites is the result of an
\* invocation whose input passed validation and whose handler resolves in
\* that step, before its timer fired, stored under that invocation's
\* fingerprint
WrittenBySuccess ==
    \A e \in Entries(cache') \ Entries(cache) :
        \E c \in CallIds :
            /\ IsResolveStep(c)
            /\ SchemaAccepts(calls[c].tool.schema, calls[c].input)
            /\ calls'[c].timer # "fired"
            /\ calls'[c].outcome = "success"
            /\ e.key = generateCacheKey(calls[c].toolName, calls[c].input)
            /\ e.value = ResultOf(c)

\* C31 as stated: every cache entry written stores the result of an
\* invocation that passed validation and whose handler completed before its
\* deadline, and an invocation that fails at any stage has left the cache
\* and the metrics collector exactly as they were.
C31_FailureLeavesCacheUnchanged ==
    [][/\ WrittenBySuccess
       /\ \A c \in CallIds :
            IsFailStep(c) => /\ cache' = cache
                             /\ toolMetrics' = toolMetrics
                             /\ ~calls'[c].probeDeleted
      ]_vars

\* C31 amended: every cache entry written stores the result of an
\* invocation that passed validation and whose handler completed before its
\* deadline; an invocation that fails at any stage writes no entry and
\* records no sample, and the only change it makes to the cache is that its
\* probe deletes the entry under its own fingerprint when that entry has
\* already expired.
C31_FailureWritesNothing ==
    [][/\ WrittenBySuccess
       /\ \A c \in CallIds :
            LET key == generateCacheKey(calls'[c].toolName, calls'[c].input)
            IN /\ IsFailStep(c)
                  => /\ toolMetrics' = toolMetrics
                     /\ Entries(cache') \subseteq Entries(cache)
               /\ (calls[c].pc = "idle" /\ calls'[c].pc # "idle")
                  => /\ calls'[c].probeDeleted
                        => /\ CacheHasKey(cache, key)
                           /\ Expired(CacheEntryOf(cache, key), now)
                           /\ cache' = CacheDelete(cache, key)
                     /\ ~calls'[c].probeDeleted => cache' = cache
      ]_vars

\* an invocation whose probe deleted an expired entry under its fingerprint
\* failed when its handler rejected: the cache holds nothing under that
\* fingerprint, and the only sample is the one of the earlier success
C31_Witness ==
    \E c \in CallIds :
        /\ calls[c].pc = "done" /\ calls[c].outcome = "failure"
        /\ calls[c].handler = "rejected"
        /\ calls[c].probeDeleted
        /\ ~CacheHasKey(cache, generateCacheKey(calls[c].toolName, calls[c].input))
        /\ Len(toolMetrics) = 1


(***************************************************************************)
(* Concurrent identical invocations (SpecCache)                            *)
(***************************************************************************)
\* the number of entries of cache c stored under key
CountKey(c, key) == Cardinality({ i \in 1..Len(c) : c[i].key = key })

\* C32: an invocation that starts while another one with the same name and
\* input is still awaiting its handler, and that finds no live entry under
\* their fingerprint, invokes the handler too (no single-flight); each of
\* them succeeds when its handler resolves, and at each such population the
\* cache holds exactly one entry under the fingerprint, the result of the
\* invocation that populated last.
C32_ConcurrentMissesBothCompute ==
    [][\A c \in CallIds :
          LET key == generateCacheKey(calls'[c].toolName, calls'[c].input)
          IN /\ (/\ calls[c].pc = "idle" /\ calls'[c].pc # "idle"
                 /\ \E d \in CallIds \ {c} :
                        /\ calls[d].pc = "running"
                        /\ calls[d].toolName = calls'[c].toolName
                        /\ calls[d].input = calls'[c].input
                 /\ ~CacheGet(cache, key, now).found)
                => /\ calls'[c].pc = "running"
                   /\ calls'[c].invoked = 1
                   /\ \A d \in CallIds \ {c} : calls'[d] = calls[d]
             /\ (IsResolveStep(c) /\ UseCache(calls[c].options))
                => /\ calls'[c].outcome = "success"
                   /\ calls'[c].result = ResultOf(c)
                   /\ CountKey(cache', key) = 1
                   /\ CacheEntryOf(cache', key).value = ResultOf(c)
                   /\ CacheEntryOf(cache', key).timestamp = now
      ]_vars

\* two invocations of 'add' with the same input both invoked the handler
\* and both succeeded; the second started before the first populated and
\* populated after it: the one entry under their fingerprint holds the
\* second's result, which differs from the first's
C32_Witness ==
    \E c \in CallIds, d \in CallIds :
        /\ c # d
        /\ calls[c].pc = "done" /\ calls[d].pc = "done"
        /\ calls[c].outcome = "success" /\ calls[d].outcome = "success"
        /\ calls[c].toolName = calls[d].toolName /\ calls[c].input = calls[d].input
        /\ UseCache(calls[c].options) /\ UseCache(calls[d].options)
        /\ calls[c].invoked = 1 /\ calls[d].invoked = 1
        /\ calls[d].execStart <= calls[c].settledAt
        /\ calls[c].settledAt < calls[d].settledAt
        /\ calls[c].result # calls[d].result
        /\ LET key == generateCacheKey(calls[c].toolName, calls[c].input)
           IN /\ CountKey(cache, key) = 1
              /\ CacheEntryOf(cache, key).value = calls[d].result


(***************************************************************************)
(* SpecSweep: 'add' is registered and invoked with entries that expire     *)
(* after 500 ms or after the default five minutes, while the cleanup       *)
(* interval fires between any two segments of the invocations.             *)
(***************************************************************************)
SweepOptions == { NoOptions, [NoOptions EXCEPT !.cacheTtlMs = 500] }

NextSweep ==
    \/ tools = << >> /\ RegistryRegister(ToolAdd)
    \/ \E c \in CallIds, i \in CacheInputs, o \in SweepOptions : ExecuteTool(c, "add", i, o)
    \/ \E c \in CallIds : HandlerResolves(c)
    \/ ToolCacheCleanup
    \/ \E d \in TimeoutTickSteps : Tick(d)

SpecSweep == Init /\ [][NextSweep]_vars

\* the step is a run of cleanup()
IsCleanupStep == lastOp'.op = "cleanup" /\ calls' = calls /\ now' = now /\ tools' = tools

\* the entry is logically absent at time t: its ttl is positive and more
\* than ttl has elapsed since its creation
LogicallyAbsent(e, t) == e.ttlMs > 0 /\ t - e.timestamp > e.ttlMs

\* C33: a sweep removes every entry that is expired at the time of the sweep
\* and no other entry; with sweeps running between the segments of
\* concurrent invocations, a cache hit never returns the value of an expired
\* entry, and an unexpired entry leaves the cache only when a population
\* under its own fingerprint replaces it.
C33_SweepRemovesExactlyExpired ==
    [][/\ IsCleanupStep
            => /\ \A e \in Entries(cache) :
                    (e \in Entries(cache')) <=> ~LogicallyAbsent(e, now)
               /\ Entries(cache') \subseteq Entries(cache)
               /\ Len(cache') = Cardinality(Entries(cache'))
       /\ \A c \in CallIds :
            (calls[c].pc = "idle" /\ calls'[c].outcome = "success")
               => \E e \in Entries(cache) :
                    /\ e.key = generateCacheKey(calls'[c].toolName, calls'[c].input)
                    /\ e.value = calls'[c].result
                    /\ ~LogicallyAbsent(e, now)
       /\ \A e \in Entries(cache) :
            (~LogicallyAbsent(e, now) /\ e \notin Entries(cache'))
               => \E c \in CallIds :
                    /\ IsResolveStep(c)
                    /\ e.key = generateCacheKey(calls[c].toolName, calls[c].input)
                    /\ CacheHasKey(cache', e.key)
      ]_vars

\* a sweep ran while the second invocation was awaiting its handler: the
\* entry of the first invocation, stored with a TTL of 500 ms under another
\* fingerprint, had expired and is gone
C33_Witness ==
    /\ lastOp.op = "cleanup"
    /\ calls[1].pc = "done" /\ calls[1].outcome = "success"
    /\ calls[1].invoked = 1
    /\ calls[1].options.cacheTtlMs = 500
    /\ calls[2].pc = "running"
    /\ calls[2].input # calls[1].input
    /\ now - calls[1].settledAt > 500
    /\ cache = << >>


C35_NoResultOfRemovedDefinition ==
    \A c \in CallIds :
        calls[c].outcome = "success"
            => calls[c].result.result = TrueOutput(calls[c])


(***************************************************************************)
(* SpecDispatch: listeners that call removeEventListener or                *)
(* addEventListener while they are being called, each added at most once,  *)
(* and the events of register and executeTool.                             *)
(***************************************************************************)
DispatchListeners == {"plain", "removesSelf", "removesPlain", "addsLate"}

NextDispatch ==
    \/ \E l \in DispatchListeners :
            IndexOf(eventListeners, l) = 0 /\ AddEventListener(l)
    \/ tools = << >> /\ Register(ToolAdd2)
    \/ \E c \in CallIds : FacadeExecuteTool(c, "add", InputSum, NoOptions)
    \/ \E c \in CallIds : HandlerResolves(c)
    \/ \E c \in CallIds : FacadeContinues(c)

SpecDispatch == Init /\ [][NextDispatch]_vars

\* the listeners that are called when each listener registered at the start
\* of the emission (snapshot) gets its turn in registration order if it is
\* still registered (in live) at that moment
RECURSIVE CalledInTurn(_, _, _)
CalledInTurn(snapshot, index, live) ==
    IF index > Len(snapshot) THEN {}
    ELSE IF IndexOf(live, snapshot[index]) = 0
         THEN CalledInTurn(snapshot, index + 1, live)
         ELSE {snapshot[index]}
                \cup CalledInTurn(snapshot, index + 1,
                                  ListenerEffect(live, snapshot[index]))

\* the number of calls of listener l in a sequence of listener calls
TimesCalled(ds, l) == Cardinality({ i \in 1..Len(ds) : ds[i].listener = l })

\* C36: in every emission, each listener that was registered when the
\* emission began and is still registered when its turn comes is called
\* exactly once with the event, whatever removeEventListener and
\* addEventListener calls the listeners make while they are being called.
C36_DispatchReachesEveryListener ==
    [][Len(emitted') = Len(emitted) + 1
          => \A l \in CalledInTurn(eventListeners, 1, eventListeners) :
                /\ TimesCalled(delivered', l) = 1
                /\ \A i \in 1..Len(delivered') :
                      delivered'[i].event = emitted'[Len(emitted')]
      ]_vars


(***************************************************************************)
(* Facade calls served from the cache (SpecCache)                          *)
(***************************************************************************)
\* invocation c was served from the cache
ServedFromCache(c) == calls[c].outcome = "success" /\ calls[c].invoked = 0

\* C37: a facade call served from the cache has emitted
\* tool_execution_started alone while its continuation is pending and, once
\* it has returned, tool_execution_started then tool_execution_completed
\* and nothing else; its handler was not invoked, and the completed event
\* and the returned value carry the stored result, which is the result of
\* the invocation that computed it, with that invocation's executionTimeMs.
C37_CacheHitEmitsCompleted ==
    \A c \in CallIds :
        (calls[c].via = "facade" /\ ServedFromCache(c))
            => /\ calls[c].handler = "none"
               /\ calls[c].pc = "settled"
                    => /\ Len(EventsOf(c)) = 1
                       /\ EventsOf(c)[1].type = TOOL_EXECUTION_STARTED
               /\ calls[c].pc = "done"
                    => /\ Len(EventsOf(c)) = 2
                       /\ EventsOf(c)[1].type = TOOL_EXECUTION_STARTED
                       /\ EventsOf(c)[2].type = TOOL_EXECUTION_COMPLETED
                       /\ EventsOf(c)[2].toolName = calls[c].toolName
                       /\ EventsOf(c)[2].result = calls[c].result
               /\ \E d \in CallIds :
                    /\ calls[d].invoked = 1 /\ calls[d].handler = "resolved"
                    /\ calls[d].result = calls[c].result
                    /\ calls[c].result.executionTimeMs
                          = calls[d].settledAt - calls[d].execStart

\* a facade call was served the result of a computation that had taken a
\* second: its two events are started and completed, and the completed
\* event reports the second
C37_Witness ==
    \E c \in CallIds :
        /\ calls[c].via = "facade" /\ calls[c].pc = "done"
        /\ ServedFromCache(c)
        /\ Len(EventsOf(c)) = 2
        /\ EventsOf(c)[2].type = TOOL_EXECUTION_COMPLETED
        /\ EventsOf(c)[2].result.executionTimeMs = 1000


(***************************************************************************)
(* Overwriting a key (SpecEviction)                                        *)
(***************************************************************************)
\* C38: a set on a key that is already stored replaces that key's entry in
\* place, with the current time as its creation timestamp, and leaves every
\* other key's entry stored and the number of stored keys unchanged, also
\* when the cache is at capacity.
C38_OverwriteKeepsOtherKeys ==
    [][\A k \in EvictionKeys :
          (IsSetStep(k) /\ CacheHasKey(cache, k))
             => /\ Len(cache') = Len(cache)
                /\ Others(cache', k) = Others(cache, k)
                /\ \A i \in 1..Len(cache) : cache[i].key = k => cache'[i].key = k
                /\ CacheEntryOf(cache', k).timestamp = now
      ]_vars


(***************************************************************************)
(* LocalMcpServer: start and stop                                          *)
(***************************************************************************)
\* the start() and stop() calls made on a server
MaxServerCalls == 3

\* the port numbers given to the constructor and to start(); 0 is undefined
ServerPorts == {0, 9999}

\* the variables that the server's own methods leave alone
ServerUnchanged ==
    UNCHANGED <<tools, peerTools, policies, defaultPolicy, cache, maxEntries,
                toolMetrics, metricsLimit, defaultTimeoutSeconds, emitted, delivered,
                calls, lastOp, composition, now>>

\* new WebSocketServerTransport(...) or new StdioServerTransport(): a
\* transport that is not listening yet
NewTransport(kind) == [kind |-> kind, state |-> "new"]

\* new LocalMcpServer(agentRPC, options): the defaults of the options are
\* applied by the caller's choice of flags, the port defaults to 8080, and
\* the constructor adds its tool_registered listener to the LocalAgentRPC
NewLocalMcpServer(useWebSocket, useStdio, port) ==
    /\ composition = "LocalAgentRPC"
    /\ ~mcp.constructed
    /\ mcp' = [NoServer EXCEPT !.constructed = TRUE,
                               !.useWebSocket = useWebSocket,
                               !.useStdio = useStdio,
                               !.port = IF port # 0 THEN port ELSE 8080]
    /\ eventListeners' = Append(eventListeners, "mcpServer")
    /\ ServerUnchanged

\* start() from `if (this.options.useStdio)` on, with the WebSocket part
\* behind it: creates the stdio transport and awaits its listen, or sets
\* isRunning and resolves
StartStdioPart(s) ==
    IF s.useStdio
    THEN [s EXCEPT !.transports = Append(s.transports, NewTransport("stdio")),
                   !.stdioTransport = Len(s.transports) + 1,
                   !.pc = "start:stdio.listen"]
    ELSE [s EXCEPT !.isRunning = TRUE, !.pc = "idle", !.returned = "resolved"]

\* LocalMcpServer.start(port), up to its first await, called by a caller
\* that awaits each call: returns at once when isRunning
Start(port) ==
    /\ mcp.constructed /\ mcp.pc = "idle" /\ mcp.n < MaxServerCalls
    /\ LET called == [mcp EXCEPT !.lastCall = "start", !.n = mcp.n + 1,
                                 !.returned = "pending"]
           ported == [called EXCEPT !.port = IF port # 0 THEN port ELSE mcp.port]
       IN  mcp' = IF mcp.isRunning
                  THEN [called EXCEPT !.returned = "resolved"]
                  ELSE IF mcp.useWebSocket
                  THEN [ported EXCEPT
                           !.transports = Append(mcp.transports, NewTransport("webSocket")),
                           !.webSocketTransport = Len(mcp.transports) + 1,
                           !.pc = "start:webSocket.listen"]
                  ELSE StartStdioPart(ported)
    /\ UNCHANGED eventListeners
    /\ ServerUnchanged

\* a transport's listen() settles and start() goes on: a listen that
\* resolves leaves the transport listening, one that rejects is caught,
\* logged and rethrown, with isRunning and the transport fields as they are
ListenSettles(ok) ==
    /\ mcp.pc \in {"start:webSocket.listen", "start:stdio.listen"}
    /\ LET t == IF mcp.pc = "start:webSocket.listen"
                THEN mcp.webSocketTransport ELSE mcp.stdioTransport
           listening == [mcp EXCEPT !.transports[t].state = "listening"]
       IN  mcp' = IF ~ok
                  THEN [mcp EXCEPT !.pc = "idle", !.returned = "rejected"]
                  ELSE IF mcp.pc = "start:webSocket.listen"
                  THEN StartStdioPart(listening)
                  ELSE [listening EXCEPT !.isRunning = TRUE, !.pc = "idle",
                                         !.returned = "resolved"]
    /\ UNCHANGED eventListeners
    /\ ServerUnchanged

\* stop() from `if (this.stdioTransport)` on
StopStdioPart(s) ==
    IF s.stdioTransport # 0
    THEN [s EXCEPT !.pc = "stop:stdio.close"]
    ELSE [s EXCEPT !.pc = "stop:mcpServer.close"]

\* LocalMcpServer.stop(), up to its first await: returns at once unless
\* isRunning
Stop ==
    /\ mcp.constructed /\ mcp.pc = "idle" /\ mcp.n < MaxServerCalls
    /\ LET called == [mcp EXCEPT !.lastCall = "stop", !.n = mcp.n + 1,
                                 !.returned = "pending"]
       IN  mcp' = IF ~mcp.isRunning
                  THEN [called EXCEPT !.returned = "resolved"]
                  ELSE IF mcp.webSocketTransport # 0
                  THEN [called EXCEPT !.pc = "stop:webSocket.close"]
                  ELSE StopStdioPart(called)
    /\ UNCHANGED eventListeners
    /\ ServerUnchanged

\* a close() settles and stop() goes on: a transport whose close resolves is
\* closed and its field is set to undefined; after mcpServer.close()
\* isRunning is false; a close that rejects is caught, logged and rethrown
CloseSettles(ok) ==
    /\ mcp.pc \in {"stop:webSocket.close", "stop:stdio.close", "stop:mcpServer.close"}
    /\ mcp' = IF ~ok
              THEN [mcp EXCEPT !.pc = "idle", !.returned = "rejected"]
              ELSE IF mcp.pc = "stop:webSocket.close"
              THEN StopStdioPart([mcp EXCEPT
                       !.transports[mcp.webSocketTransport].state = "closed",
                       !.webSocketTransport = 0])
              ELSE IF mcp.pc = "stop:stdio.close"
              THEN [mcp EXCEPT !.transports[mcp.stdioTransport].state = "closed",
                               !.stdioTransport = 0,
                               !.pc = "stop:mcpServer.close"]
              ELSE [mcp EXCEPT !.isRunning = FALSE, !.pc = "idle",
                               !.returned = "resolved"]
    /\ UNCHANGED eventListeners
    /\ ServerUnchanged

NextMcpServer ==
    \/ \E w \in BOOLEAN, s \in BOOLEAN, p \in ServerPorts : NewLocalMcpServer(w, s, p)
    \/ \E p \in ServerPorts : Start(p)
    \/ \E ok \in BOOLEAN : ListenSettles(ok)
    \/ Stop
    \/ \E ok \in BOOLEAN : CloseSettles(ok)

SpecMcpServer == Init /\ [][NextMcpServer]_vars

\* the transports that are listening
Listening(s) == {t \in 1..Len(s.transports) : s.transports[t].state = "listening"}

\* this step is a call of `op` that returns at once
ReturnsAtOnce(op) ==
    /\ mcp.pc = "idle" /\ mcp'.pc = "idle"
    /\ mcp'.n = mcp.n + 1 /\ mcp'.lastCall = op

\* this step is the one in which a stop() call resolves
StopResolves ==
    /\ mcp' # mcp
    /\ mcp'.pc = "idle" /\ mcp'.lastCall = "stop" /\ mcp'.returned = "resolved"

\* what a call may change in a step that is a no-op: the record of the call
SameServer(s, t) ==
    [s EXCEPT !.lastCall = "none", !.returned = "none", !.n = 0]
      = [t EXCEPT !.lastCall = "none", !.returned = "none", !.n = 0]

\* C39: start() on a running server and stop() on a server that is not
\* running resolve at once and change nothing, and when a stop() call
\* resolves no transport that an earlier start() call began listening on is
\* still listening, also after a start() that failed part-way.
C39_StopClosesWhatStartOpened ==
    [][/\ (ReturnsAtOnce("start") /\ mcp.isRunning)
           => (SameServer(mcp, mcp') /\ mcp'.returned = "resolved")
       /\ (ReturnsAtOnce("stop") /\ ~mcp.isRunning)
           => (SameServer(mcp, mcp') /\ mcp'.returned = "resolved")
       /\ StopResolves => Listening(mcp') = {}
      ]_vars

\* the two halves that hold: the calls that are no-ops
StartStopNoOps ==
    [][/\ (ReturnsAtOnce("start") /\ mcp.isRunning)
           => (SameServer(mcp, mcp') /\ mcp'.returned = "resolved")
       /\ (ReturnsAtOnce("stop") /\ ~mcp.isRunning)
           => (SameServer(mcp, mcp') /\ mcp'.returned = "resolved")
      ]_vars

\* a stop() that finds the server running closes every transport of the
\* start() that set it running
RunningStopCloses ==
    [][(StopResolves /\ mcp.isRunning)
          => \A t \in Listening(mcp) :
                t \in {mcp.webSocketTransport, mcp.stdioTransport}
                  => mcp'.transports[t].state = "closed"
      ]_vars

====
